---- MODULE Spec2Model ----
(***************************************************************************)
(* py-crude-resource-monitor: the recording pipeline (run_profile,         *)
(* Tracker, SpyHelper, the writer thread) and the Firefox profile export   *)
(* (read_report, ProfileBuilder).                                          *)
(*                                                                         *)
(* Spec        the recording session: main thread and writer thread        *)
(* SpecExport  generate_fxprof applied twice to a recorded session         *)
(* SpecInterval ProfileBuilder::sampling_interval on bounded streams       *)
(* SpecThreads generate_fxprof on a process with several threads, frames   *)
(* SpecRead    read_report on a data directory                             *)
(* SpecFair    Spec with weak fairness of the main and the writer thread   *)
(* SpecThreadIds generate_fxprof on thread ids beyond 32 bits              *)
(* SpecExportReport export_report: read, build, write_profile              *)
(***************************************************************************)
EXTENDS Integers, Sequences, FiniteSets, TLC

(***************************************************************************)
(* Bounds of the model.                                                    *)
(***************************************************************************)
\* ticks of the sampling loop that a session may run
MaxTicks == 3
\* capacity of the channel; the source uses sync_channel(100)
\* (src/src/tracker.rs:72), scaled down so that the full queue is reached
ChannelCapacity == 2

\* records per identity in the sessions the export is run on
MaxRecords == 2
\* memory readings of the process in the counter sessions
MaxReadings == 3
\* records of a session of the interval estimate, over all identities
MaxStream == 5
\* stack traces of the process in the sessions with several threads
MaxStacks == 3
\* frames of a stack trace in the sessions with several frames
MaxFrames == 2
\* files of a data directory that is read
MaxFiles == 2
\* bits that `as u32` keeps of a thread id; the source keeps 32 of 64
\* (src/src/export/firefox.rs:252, 294), scaled down with the thread ids
U32Bits == 4

(***************************************************************************)
(* Program constants.                                                      *)
(***************************************************************************)
\* tracker.rs:55  for _ in 0..5
MaxAttachAttempts == 5
\* export.rs:70   "pid 0 is not real and used as a global placeholder"
Global == 0

\* the processes a session can see: the root and one child of it
Pids == {1, 2}
RootPid == CHOOSE p \in Pids : \A q \in Pids : p <= q
Identities == Pids \cup {Global}

\* The environments a session is explored in:
\*   procs  the processes that exist: the root alone, or the root and a child
\*   clock  "steady": the wall clock advances between ticks;
\*          "setback": it is set back once, after the first tick
\*   flaky  whether a stack capture can fail and a resource lookup can be
\*          empty (exits and attach failures happen in every environment)
\*   ticks  the ticks explored; the larger environments get fewer
Environments ==
    {[procs |-> {RootPid}, clock |-> "steady", flaky |-> TRUE, ticks |-> MaxTicks],
     [procs |-> {RootPid}, clock |-> "setback", flaky |-> TRUE, ticks |-> MaxTicks],
     [procs |-> Pids, clock |-> "steady", flaky |-> FALSE, ticks |-> MaxTicks - 1],
     [procs |-> Pids, clock |-> "steady", flaky |-> TRUE, ticks |-> MaxTicks - 2]}

\* what get_stack_traces can answer for the tracked processes, and for which
\* of the captured ones get_process_info can find the process
Captures(e, tracked) == IF e.flaky THEN SUBSET tracked ELSE {tracked}
Lookups(e, captured) == IF e.flaky THEN SUBSET captured ELSE {captured}

\* SystemTime::now() as milliseconds, read by tick k
ClockReading(e, k) ==
    IF e.clock = "steady" THEN 10 * k
    ELSE IF k = 1 THEN 20 ELSE 10 * (k - 1)

(***************************************************************************)
(* Sequence helpers.                                                       *)
(***************************************************************************)
Range(s) == {s[i] : i \in DOMAIN s}

\* the subsequence of s of the requests and records of identity id
SeqFilter(s, id) == SelectSeq(s, LAMBDA r : r.output_path = id)

\* every ordering of the finite set S as a sequence without repetition
Orderings(S) ==
    {s \in [1..Cardinality(S) -> S] : \A i, j \in DOMAIN s : i # j => s[i] # s[j]}

VARIABLES
    \* ---- main thread (run_profile)
    pc,            \* "attach" | "loop" | "send" | "returned" | "exit_ok"
                   \* | "exit_err" | "panicked"
    attempts,      \* attach attempts made by new_with_retry
    last_err,      \* new_with_retry's last_err: NoError, or the error kept
    quit,          \* quit_requested, set by the ctrlc handler
    spies,         \* SpyHelper.spies: the tracked pids
    pending,       \* the write requests the running tick has still to send
    tickNo,        \* ticks started so far
    \* ---- channel and writer thread
    queue,         \* the sync_channel buffer
    wstate,        \* "none" | "recv" | "write" | "panicked" | "ended"
    cur,           \* the request the writer took and has not written yet
    file_lines,    \* the writer's HashMap path -> next index
    files,         \* the contents of the output files, one list per path
    writers,       \* writer threads spawned so far
    \* ---- history
    submitted,     \* every request a send accepted, in order
    skipped,       \* <<tick, pid>>: captured, but get_process_info was None
    uncaptured,    \* <<tick, pid>>: tracked, but get_stack_traces failed
    lastRefresh,   \* what the last SpyHelper::refresh saw and did
    ioFailed,      \* an open or a write of the writer has failed
    env,           \* the environment of the session, fixed at its start
    \* ---- export
    session,       \* the HashMap<ReportIdentifier, Vec<JsonLine>> of read_report
    order1,        \* the iteration order of the map in the first run
    order2,        \* ... and in the second run
    profile1,      \* what generate_fxprof returned in the first run
    profile2,      \* ... and in the second run
    builder,       \* what ProfileBuilder::from_samples returned
    epc,           \* "idle" | "loaded" | "built1" | "built2" | "estimated"
                   \* | "reading" | "read" | "generated" | "created"
                   \* | "serialized" | "done"
    \* ---- read_report
    data_dir,      \* the files of the data directory: name -> content
    unread,        \* the entries read_dir has still to yield
    all_processes, \* the map read_report is filling
    report,        \* what read_report returned
    \* ---- export_report, write_profile
    output_file,   \* the file at output_path
    result,        \* what export_report returned
    \* ---- history of export_report
    output_before, \* the file at output_path when export_report was called
    io_log         \* the steps of write_profile that ran, and how each ended

pipeVars == <<pc, attempts, last_err, quit, spies, pending, tickNo, queue, wstate, cur,
              file_lines, files, writers, submitted, skipped, uncaptured,
              lastRefresh, ioFailed, env>>
readVars == <<data_dir, unread, all_processes, report>>
writeVars == <<output_file, result, output_before, io_log>>
exportVars == <<session, order1, order2, profile1, profile2, builder, epc, readVars,
                writeVars>>
vars == <<pipeVars, exportVars>>

NoRequest == [output_path |-> Global, tick |-> 0]

\* let mut last_err = None
NoError == 0
\* the error of the attempt number k: every attempt fails with its own error
AttachError(k) == k

\* read_report has not run
NothingRead ==
    /\ data_dir = <<>>
    /\ unread = {}
    /\ all_processes = <<>>
    /\ report = <<>>

\* the file at output_path: none, the file of an earlier export, or what
\* write_profile has made of it
NoFile == [state |-> "absent", profile |-> <<>>]
EarlierFile == [state |-> "finalized", profile |-> <<"earlier">>]

\* export_report has not run
NothingWritten ==
    /\ output_file = NoFile
    /\ result = <<>>
    /\ output_before = NoFile
    /\ io_log = <<>>

ExportIdle ==
    /\ session = <<>>
    /\ order1 = <<>>
    /\ order2 = <<>>
    /\ profile1 = <<>>
    /\ profile2 = <<>>
    /\ builder = <<>>
    /\ NothingRead
    /\ NothingWritten
    /\ epc = "idle"

(***************************************************************************)
(* Tracker::tick, the requests.                                            *)
(***************************************************************************)
\* py-spy's answer for a captured process: its list of stack traces
CapturedTraces(p) == {<<[pid |-> p, thread_id |-> 1]>>}

\* SystemMeasurements::get_process_info found the process
ProcessInfo(p) == [scope |-> "process", pid |-> p]
\* SystemMeasurements::get_global_info
GlobalInfo == [scope |-> "system", pid |-> Global]

\* output_dir.join(format!("{}.json", pid)): one path per pid
PidPath(p) == p
\* output_dir.join("global.json")
GlobalPath == Global

\* the request of one pid of the tick (tick is a history tag, not a field)
PidRequest(p, traces, t, k) ==
    [output_path |-> PidPath(p), resources |-> ProcessInfo(p),
     stacktraces |-> traces, time |-> t, tick |-> k]

GlobalRequestWithStacks(t, k) ==
    [output_path |-> GlobalPath, resources |-> GlobalInfo,
     stacktraces |-> <<[pid |-> Global, thread_id |-> 1]>>, time |-> t, tick |-> k]

\* the request every tick ends with
GlobalRequest(t, k) ==
    [output_path |-> GlobalPath, resources |-> GlobalInfo,
     stacktraces |-> <<>>, time |-> t, tick |-> k]

get_stacktraces_or_none(tracked, ok) == IF ok = tracked THEN ok ELSE {}

\* SpyHelper::get_stacktraces: the map has an entry for every tracked pid
\* whose capture succeeded (ok); a failed capture is logged and skipped
get_stacktraces(tracked, ok) == tracked \cap ok

LookupAll(captured, withInfo) == captured

\* the pids of the tick that get a request: captured, and found by
\* get_process_info (the others `continue`)
Lookup(captured, withInfo) == captured \cap withInfo

(***************************************************************************)
(* SpyHelper::refresh                                                      *)
(***************************************************************************)
\* no refresh yet
NoRefresh ==
    [before |-> {}, exited |-> {}, untracked |-> {}, kids |-> {}, attached |-> {},
     failed_before |-> {}]

new_processes_not_failed(tracked, listed, failed_before) ==
    (listed \ tracked) \ failed_before

\* new_processes: every child the tracked processes list that is not a key
\* of spies; nothing of the earlier refreshes is kept but spies itself
\* (failed_before: the children whose attach failed in the refresh before)
new_processes(tracked, listed, failed_before) == listed \ tracked

RefreshKeepsExited(tracked, exited, attached) == tracked \cup attached

\* exited: the tracked pids whose exe() probe failed; attached: the new
\* children whose track_process succeeded
Refresh(tracked, exited, attached) == (tracked \ exited) \cup attached

any_live_always(tracked) == TRUE

\* SpyHelper::any_live: !self.spies.is_empty()
any_live(tracked) == tracked # {}

(***************************************************************************)
(* The channel.                                                            *)
(***************************************************************************)
CanSendUnbounded(q) == TRUE

\* SyncSender::send returns at once only while the buffer has room
CanSend(q) == Len(q) < ChannelCapacity

ChannelRecvLast(q) == [msg |-> q[Len(q)], rest |-> SubSeq(q, 1, Len(q) - 1)]

\* Receiver::recv: the oldest message
ChannelRecv(q) == [msg |-> Head(q), rest |-> Tail(q)]

(***************************************************************************)
(* The writer thread's bookkeeping.                                        *)
(***************************************************************************)
RECURSIVE SumLines(_, _)
SumLines(fl, S) ==
    IF S = {} THEN 0
    ELSE LET x == CHOOSE y \in S : TRUE IN fl[x] + SumLines(fl, S \ {x})

LineIndexShared(fl, path) == SumLines(fl, DOMAIN fl)

\* file_lines.entry(path).or_insert(0)
LineIndex(fl, path) == IF path \in DOMAIN fl THEN fl[path] ELSE 0

\* *line_index += 1
BumpLineIndex(fl, path) ==
    [p \in DOMAIN fl \cup {path} |-> IF p = path THEN LineIndex(fl, path) + 1 ELSE fl[p]]

\* the JsonLine of a request (tick stays as the history tag)
JsonLine(req, idx) ==
    [output_path |-> req.output_path, stacktraces |-> req.stacktraces,
     resources |-> req.resources, index |-> idx, time |-> req.time,
     tick |-> req.tick]

Running == pc \notin {"exit_ok", "exit_err", "panicked"}

(***************************************************************************)
(* Init                                                                    *)
(***************************************************************************)
PipeInit ==
    /\ pc = "attach"
    /\ attempts = 0
    /\ last_err = NoError
    /\ quit = FALSE
    /\ spies = {}
    /\ pending = <<>>
    /\ tickNo = 0
    /\ queue = <<>>
    /\ wstate = "none"
    /\ cur = NoRequest
    /\ file_lines = <<>>
    /\ files = [id \in Identities |-> <<>>]
    /\ writers = 0
    /\ submitted = <<>>
    /\ skipped = {}
    /\ uncaptured = {}
    /\ lastRefresh = NoRefresh
    /\ ioFailed = FALSE
    /\ env \in Environments

Init == PipeInit /\ ExportIdle

(***************************************************************************)
(* Main thread: run_profile, Tracker::new_with_retry, Tracker::tick        *)
(***************************************************************************)
RetriesLeftOneMore(made) == made <= MaxAttachAttempts

\* for _ in 0..5: another attempt follows the attempt number `made`
RetriesLeft(made) == made < MaxAttachAttempts

\* one attempt of new_with_retry succeeds: SpyHelper::new tracks the root,
\* the channel is created and the writer thread spawned; the tracker is
\* returned at once
AttachOk ==
    /\ pc = "attach"
    /\ attempts' = attempts + 1
    /\ last_err' = NoError
    /\ spies' = {RootPid}
    /\ wstate' = "recv"
    /\ writers' = writers + 1
    /\ pc' = "loop"
    /\ UNCHANGED <<quit, pending, tickNo, queue, cur, file_lines, files,
                   submitted, skipped, uncaptured, lastRefresh, ioFailed, env, exportVars>>

AttachFailsAfterSpawn ==
    /\ pc = "attach"
    /\ attempts' = attempts + 1
    /\ last_err' = AttachError(attempts + 1)
    /\ writers' = writers + 1
    /\ pc' = IF RetriesLeft(attempts + 1) THEN "attach" ELSE "exit_err"
    /\ UNCHANGED <<quit, spies, pending, tickNo, queue, wstate, cur, file_lines,
                   files, submitted, skipped, uncaptured, lastRefresh, ioFailed,
                   env, exportVars>>

\* one attempt fails before anything is created and its error is kept; after
\* the last attempt the kept error is returned and main exits with status 1
AttachFails ==
    /\ pc = "attach"
    /\ attempts' = attempts + 1
    /\ last_err' = AttachError(attempts + 1)
    /\ pc' = IF RetriesLeft(attempts + 1) THEN "attach" ELSE "exit_err"
    /\ UNCHANGED <<quit, spies, pending, tickNo, queue, wstate, cur, file_lines,
                   files, writers, submitted, skipped, uncaptured, lastRefresh, ioFailed,
                   env, exportVars>>

\* the ctrlc handler stores true
Interrupt ==
    /\ Running
    /\ ~quit
    /\ quit' = TRUE
    /\ UNCHANGED <<pc, attempts, last_err, spies, pending, tickNo, queue, wstate, cur,
                   file_lines, files, writers, submitted, skipped, uncaptured, lastRefresh,
                   ioFailed, env, exportVars>>

LoopConditionIgnoresQuit(tracked, quit_requested) == any_live(tracked)

\* while tracker.is_still_tracking() && !quit_requested.load(Ordering::Acquire)
LoopCondition(tracked, quit_requested) == any_live(tracked) /\ ~quit_requested

\* the loop condition holds and tick() runs up to its first send:
\* system.refresh, spies.refresh, the clock, get_stacktraces and the
\* resource lookups of the snapshot.  exited: the tracked pids whose exe()
\* probe fails; listed: the pids that child_processes() lists for the
\* tracked pids (a pid whose listing fails contributes none); kids: the
\* listed pids that track_process is called for; attached: the kids whose
\* track_process succeeds.  lastRefresh keeps them, with the listed pids
\* that were not tracked and the kids whose attach failed the refresh before
TickBegin ==
    /\ pc = "loop"
    /\ LoopCondition(spies, quit)
    /\ tickNo < env.ticks
    /\ \E exited \in SUBSET spies, listed \in SUBSET env.procs :
        \E kids \in {new_processes(spies, listed,
                                   lastRefresh.kids \ lastRefresh.attached)} :
        \E attached \in SUBSET kids :
         LET tracked == Refresh(spies, exited, attached)
             t == ClockReading(env, tickNo + 1) IN
         \E ok \in Captures(env, tracked) :
          LET captured == get_stacktraces(tracked, ok) IN
          \E withInfo \in Lookups(env, captured) :
           \E order \in Orderings(Lookup(captured, withInfo)) :
            \E traces \in [Pids -> UNION {CapturedTraces(p) : p \in Pids}] :
              /\ \A p \in Pids : traces[p] \in CapturedTraces(p)
              /\ spies' = tracked
              /\ tickNo' = tickNo + 1
              /\ pending' = [i \in DOMAIN order |->
                               PidRequest(order[i], traces[order[i]], t, tickNo + 1)]
                            \o <<GlobalRequest(t, tickNo + 1)>>
              /\ skipped' = skipped \cup {<<tickNo + 1, p>> : p \in captured \ withInfo}
              /\ uncaptured' = uncaptured \cup {<<tickNo + 1, p>> : p \in tracked \ ok}
              /\ lastRefresh' = [before |-> spies, exited |-> exited,
                                 untracked |-> listed \ spies, kids |-> kids,
                                 attached |-> attached,
                                 failed_before |->
                                     lastRefresh.kids \ lastRefresh.attached]
    /\ pc' = "send"
    /\ UNCHANGED <<attempts, last_err, quit, queue, wstate, cur, file_lines, files, writers,
                   submitted, ioFailed, env, exportVars>>

\* writer_channel.send(..) returns Ok: the request is in the buffer; while
\* the buffer is full the call does not return (the thread is parked)
Send ==
    /\ pc = "send"
    /\ wstate # "panicked"
    /\ CanSend(queue)
    /\ queue' = Append(queue, Head(pending))
    /\ submitted' = Append(submitted, Head(pending))
    /\ pending' = Tail(pending)
    /\ pc' = IF Tail(pending) = <<>> THEN "loop" ELSE "send"
    /\ UNCHANGED <<attempts, last_err, quit, spies, tickNo, wstate, cur, file_lines, files,
                   writers, skipped, uncaptured, lastRefresh, ioFailed, env, exportVars>>

\* the receiver is gone: send returns Err and expect("Send succeeds") panics;
\* the main thread's panic ends the process with status 101
SendFails ==
    /\ pc = "send"
    /\ wstate = "panicked"
    /\ pc' = "panicked"
    /\ UNCHANGED <<attempts, last_err, quit, spies, pending, tickNo, queue, wstate, cur,
                   file_lines, files, writers, submitted, skipped, uncaptured, lastRefresh,
                   ioFailed, env, exportVars>>

\* the loop condition fails; run_profile returns Ok(()) and drops the tracker
\* with the sender
LoopExit ==
    /\ pc = "loop"
    /\ ~LoopCondition(spies, quit)
    /\ pc' = "returned"
    /\ UNCHANGED <<attempts, last_err, quit, spies, pending, tickNo, queue, wstate, cur,
                   file_lines, files, writers, submitted, skipped, uncaptured, lastRefresh,
                   ioFailed, env, exportVars>>

\* main returns: the process exits with status 0 and its threads with it;
\* nothing joins the writer thread
ProcessExit ==
    /\ pc = "returned"
    /\ pc' = "exit_ok"
    /\ UNCHANGED <<attempts, last_err, quit, spies, pending, tickNo, queue, wstate, cur,
                   file_lines, files, writers, submitted, skipped, uncaptured, lastRefresh,
                   ioFailed, env, exportVars>>

(***************************************************************************)
(* Writer thread                                                           *)
(***************************************************************************)
\* rx.recv() returns the oldest request
WriterRecv ==
    /\ Running
    /\ wstate = "recv"
    /\ queue # <<>>
    /\ cur' = ChannelRecv(queue).msg
    /\ queue' = ChannelRecv(queue).rest
    /\ wstate' = "write"
    /\ UNCHANGED <<pc, attempts, last_err, quit, spies, pending, tickNo, file_lines, files,
                   writers, submitted, skipped, uncaptured, lastRefresh, ioFailed, env, exportVars>>

\* the sender is dropped and the buffer empty: recv returns Err, the loop ends
WriterEnds ==
    /\ pc = "returned"
    /\ wstate = "recv"
    /\ queue = <<>>
    /\ wstate' = "ended"
    /\ UNCHANGED <<pc, attempts, last_err, quit, spies, pending, tickNo, queue, cur,
                   file_lines, files, writers, submitted, skipped, uncaptured, lastRefresh,
                   ioFailed, env, exportVars>>

\* open, both write_all calls and the increment
WriterWrite ==
    /\ Running
    /\ wstate = "write"
    /\ files' = [files EXCEPT ![cur.output_path] =
                   Append(@, JsonLine(cur, LineIndex(file_lines, cur.output_path)))]
    /\ file_lines' = BumpLineIndex(file_lines, cur.output_path)
    /\ cur' = NoRequest
    /\ wstate' = "recv"
    /\ UNCHANGED <<pc, attempts, last_err, quit, spies, pending, tickNo, queue, writers,
                   submitted, skipped, uncaptured, lastRefresh, ioFailed, env, exportVars>>

\* open fails (unwrap), the record's write_all fails, or the newline's
\* write_all fails after the record's text is in the file: the thread
\* panics, the receiver is dropped and the buffered requests with it
WriterFails ==
    /\ Running
    /\ wstate = "write"
    /\ \E step \in {"open", "line", "newline"} :
         files' = IF step = "newline"
                  THEN [files EXCEPT ![cur.output_path] =
                          Append(@, JsonLine(cur, LineIndex(file_lines, cur.output_path)))]
                  ELSE files
    /\ wstate' = "panicked"
    /\ queue' = <<>>
    /\ ioFailed' = TRUE
    /\ UNCHANGED <<pc, attempts, last_err, quit, spies, pending, tickNo, cur, file_lines,
                   writers, submitted, skipped, uncaptured, lastRefresh, env, exportVars>>

Next ==
    \/ AttachOk
    \/ AttachFails
    \/ Interrupt
    \/ TickBegin
    \/ Send
    \/ SendFails
    \/ LoopExit
    \/ ProcessExit
    \/ WriterRecv
    \/ WriterEnds
    \/ WriterWrite
    \/ WriterFails

Spec == Init /\ [][Next]_vars

\* the steps of the main thread and of the writer thread
MainStep == TickBegin \/ Send \/ SendFails \/ LoopExit \/ ProcessExit
WriterStep == WriterRecv \/ WriterWrite \/ WriterEnds

\* Spec with the scheduler's guarantee that a thread that can run does run;
\* nothing is assumed of the interrupt, of the attach attempts or of the
\* failures of the writer
SpecFair == Spec /\ WF_vars(MainStep) /\ WF_vars(WriterStep)

(***************************************************************************)
(* Export: results of fallible functions.                                  *)
(***************************************************************************)
Ok(v) == [status |-> "ok", value |-> v, error |-> ""]
\* Err(Whatever) with its message
Err(msg) == [status |-> "err", value |-> <<>>, error |-> msg]
\* a failed assert! or unwrap
Panic(msg) == [status |-> "panic", value |-> <<>>, error |-> msg]

(***************************************************************************)
(* Export: the recorded data (types.rs).  An Option is a sequence of       *)
(* length 0 or 1.  f32 and f64 values are integers: the readings of the    *)
(* model are far below 2^24, where the conversions are exact.              *)
(***************************************************************************)
MAIN_THREAD_NAME == "MainThread"

Frame(name, filename, short_filename, line, is_entry) ==
    [name |-> name, filename |-> filename, short_filename |-> short_filename,
     line |-> line, is_entry |-> is_entry]

StackTrace(thread_id, thread_name, os_thread_id, frames) ==
    [thread_id |-> thread_id, thread_name |-> thread_name,
     os_thread_id |-> os_thread_id, frames |-> frames]

ProcessResources(memory, cpu, read, written, thread_resources) ==
    [memory |-> memory, cpu |-> cpu, disk_read_bytes |-> read,
     disk_write_bytes |-> written, thread_resources |-> thread_resources]

\* a line of a session file; index plays no part in the export
Record(time, resources, stacktraces) ==
    [time |-> time, resources |-> resources, stacktraces |-> stacktraces]

(***************************************************************************)
(* ProfileBuilder::from_samples, start_time, sampling_interval             *)
(***************************************************************************)
FlatMapOfPids(processes, order) ==
    LET RECURSIVE Cat(_)
        Cat(o) == IF o = <<>> THEN <<>>
                  ELSE (IF Head(o) = Global THEN <<>> ELSE processes[Head(o)])
                       \o Cat(Tail(o))
    IN Cat(order)

RECURSIVE FlatMap(_, _)
\* samples().flat_map(|lines| lines.iter()): the lists of the map's values,
\* one after the other in the map's iteration order
FlatMap(processes, order) ==
    IF order = <<>> THEN <<>>
    ELSE processes[Head(order)] \o FlatMap(processes, Tail(order))

MinOf(S) == CHOOSE x \in S : \A y \in S : x <= y

start_time_of_first(samples) ==
    IF samples = <<>> THEN Err("no samples found") ELSE Ok(samples[1].time)

\* .map(|it| it.time).min().whatever_context("no samples found")
start_time(samples) ==
    IF samples = <<>> THEN Err("no samples found")
    ELSE Ok(MinOf({samples[i].time : i \in DOMAIN samples}))

\* u128::saturating_sub
SaturatingSub(a, b) == IF a >= b THEN a - b ELSE 0

\* .windows(2).map(|w| w[1].time.saturating_sub(w[0].time))
Deltas(samples) ==
    [i \in 1..(Len(samples) - 1) |->
        SaturatingSub(samples[i + 1].time, samples[i].time)]

RECURSIVE InsertSorted(_, _)
InsertSorted(x, s) ==
    IF s = <<>> THEN <<x>>
    ELSE IF x <= Head(s) THEN <<x>> \o s
         ELSE <<Head(s)>> \o InsertSorted(x, Tail(s))

RECURSIVE SortUnstable(_)
\* deltas.sort_unstable()
SortUnstable(s) ==
    IF s = <<>> THEN <<>> ELSE InsertSorted(Head(s), SortUnstable(Tail(s)))

MedianIndexLow(n) == (n - 1) \div 2 + 1

\* deltas.get(deltas.len() / 2), as an index that counts from 1
MedianIndex(n) == n \div 2 + 1

sampling_interval_or_zero(samples) ==
    LET deltas == SortUnstable(Deltas(samples)) IN
    IF MedianIndex(Len(deltas)) \in DOMAIN deltas
    THEN Ok(deltas[MedianIndex(Len(deltas))])
    ELSE IF samples # <<>> THEN Ok(0) ELSE Err("no samples found")

\* ProfileBuilder::sampling_interval
sampling_interval(samples) ==
    LET deltas == SortUnstable(Deltas(samples)) IN
    IF MedianIndex(Len(deltas)) \in DOMAIN deltas
    THEN Ok(deltas[MedianIndex(Len(deltas))])
    ELSE Err("no samples found")

\* ProfileBuilder::new: the profile is empty
NewBuilder(start_time_millis, interval_millis) ==
    [start_time_millis |-> start_time_millis, interval_millis |-> interval_millis,
     processes |-> <<>>]

from_samples(processes, order) ==
    LET samples == FlatMap(processes, order)
        start == start_time(samples)
        interval == sampling_interval(samples) IN
    IF start.status # "ok" THEN start
    ELSE IF interval.status # "ok" THEN interval
    ELSE Ok(NewBuilder(start.value, interval.value))

(***************************************************************************)
(* ProfileBuilder::time, cpu; ProfileCounter                               *)
(***************************************************************************)
\* Timestamp::from_millis_since_reference(millis - start_time_millis)
Timestamp(b, millis) == millis - b.start_time_millis

\* CpuDelta::from_millis(percent / 100 * interval), in hundredths of a ms
CpuDelta(b, percent) == percent * b.interval_millis

\* ProfileCounter::new(..).initialize(profile, timestamp, value)
InitializeCounter(timestamp, value) ==
    [samples |-> <<[time |-> timestamp, value |-> value]>>, last_value |-> value]

AddValueFromBaseline(c, timestamp, value) ==
    [samples |-> Append(c.samples, [time |-> timestamp, value |-> value - c.last_value]),
     last_value |-> c.last_value]

AddRawValue(c, timestamp, value) ==
    [samples |-> Append(c.samples, [time |-> timestamp, value |-> value]),
     last_value |-> value]

\* ProfileCounter::add_value: the delta to the last raw value
AddValue(c, timestamp, value) ==
    [samples |-> Append(c.samples, [time |-> timestamp, value |-> value - c.last_value]),
     last_value |-> value]

(***************************************************************************)
(* ProfileBuilderProcess                                                   *)
(***************************************************************************)
\* `thread_id as u32`: the low bits of the id
AsU32(id) == id % (2 ^ U32Bits)

\* ProfileBuilderProcess::new: the process and its two counters, each with
\* the baseline sample 0 at the start of the process
NewProcess(b, start_time_millis, pid) ==
    [pid |-> pid,
     start_time_millis |-> start_time_millis,
     start |-> Timestamp(b, start_time_millis),
     threads |-> <<>>,
     main_thread_handle |-> 0,
     memory_counter |-> InitializeCounter(Timestamp(b, start_time_millis), 0),
     io_counter |-> InitializeCounter(Timestamp(b, start_time_millis), 0)]

\* profile.add_thread: the handle is the position in the process's threads
AddThread(proc, tid, timestamp, is_main) ==
    [proc EXCEPT !.threads =
        Append(@, [tid |-> tid, start |-> timestamp, is_main |-> is_main,
                   name |-> <<>>, samples |-> <<>>])]

ThreadHandleAmongOthers(proc, tid) ==
    IF \E h \in DOMAIN proc.threads : proc.threads[h].tid = tid /\ ~proc.threads[h].is_main
    THEN CHOOSE h \in DOMAIN proc.threads :
            proc.threads[h].tid = tid /\ ~proc.threads[h].is_main
    ELSE 0

\* self.threads.get(&thread_id): the handle, 0 when there is none
ThreadHandle(proc, tid) ==
    IF \E h \in DOMAIN proc.threads : proc.threads[h].tid = tid
    THEN CHOOSE h \in DOMAIN proc.threads : proc.threads[h].tid = tid
    ELSE 0

SetThreadName(proc, h, name) == [proc EXCEPT !.threads[h].name = <<name>>]

\* the (thread_id, name) pairs of all stack traces of all records
ObservedThreads(samples) ==
    UNION {{<<samples[i].stacktraces[j].thread_id,
              IF samples[i].stacktraces[j].thread_name = <<>> THEN "unnamed"
              ELSE samples[i].stacktraces[j].thread_name[1]>> :
             j \in DOMAIN samples[i].stacktraces} : i \in DOMAIN samples}

RECURSIVE SortById(_)
\* threads.sort_by(|(a_id, _), (b_id, _)| a_id.cmp(b_id))
SortById(S) ==
    IF S = {} THEN <<>>
    ELSE LET t == CHOOSE x \in S : \A y \in S : x[1] <= y[1]
         IN <<t>> \o SortById(S \ {t})

FindMainThreadSkipped(threads) == 0

\* threads.iter().find(|(_, name)| name == MAIN_THREAD_NAME), as a position
\* (0: none)
FindMainThread(threads) ==
    IF \E i \in DOMAIN threads : threads[i][2] = MAIN_THREAD_NAME
    THEN MinOf({i \in DOMAIN threads : threads[i][2] = MAIN_THREAD_NAME})
    ELSE 0

add_main_thread_or_default(b, proc, samples) ==
    LET threads == SortById(ObservedThreads(samples))
        found == FindMainThread(threads)
        chosen == IF found # 0 THEN threads[found]
                  ELSE IF threads # <<>> THEN threads[1]
                  ELSE <<0, MAIN_THREAD_NAME>>
        p1 == AddThread(proc, AsU32(chosen[1]),
                        Timestamp(b, proc.start_time_millis), TRUE)
        h == Len(p1.threads)
    IN Ok([SetThreadName(p1, h, MAIN_THREAD_NAME) EXCEPT !.main_thread_handle = h])

\* ProfileBuilderProcess::add_main_thread
add_main_thread(b, proc, samples) ==
    LET threads == SortById(ObservedThreads(samples))
        found == FindMainThread(threads) IN
    IF found = 0 /\ threads = <<>> THEN Err("no threads found")
    ELSE LET chosen == IF found # 0 THEN threads[found] ELSE threads[1]
             p1 == AddThread(proc, AsU32(chosen[1]),
                             Timestamp(b, proc.start_time_millis), TRUE)
             h == Len(p1.threads)
         IN Ok([SetThreadName(p1, h, MAIN_THREAD_NAME) EXCEPT !.main_thread_handle = h])

\* the FrameInfo made for a frame the first time its (filename, line) is seen
FrameInfo(frame) ==
    [label |-> <<frame.name, frame.short_filename[1], frame.line>>,
     category |-> IF frame.is_entry THEN "Native" ELSE "Python"]

\* st = [proc, all_frames, status]: the process, the interned frames
\* (a map (filename, line) -> FrameInfo) and "ok" or "panic"
RECURSIVE InternFrames(_, _, _)
\* the frames of a stack trace, outermost first (iter().rev()): the interned
\* FrameInfo of each; short_filename.unwrap() panics on None
InternFrames(all_frames, frames, stack) ==
    IF frames = <<>> THEN [all_frames |-> all_frames, stack |-> stack, status |-> "ok"]
    ELSE LET frame == frames[Len(frames)]
             key == <<frame.filename, frame.line>>
         IN IF key \in DOMAIN all_frames
            THEN InternFrames(all_frames, SubSeq(frames, 1, Len(frames) - 1),
                              Append(stack, all_frames[key]))
            ELSE IF frame.short_filename = <<>>
            THEN [all_frames |-> all_frames, stack |-> stack, status |-> "panic"]
            ELSE InternFrames([k \in DOMAIN all_frames \cup {key} |->
                                  IF k = key THEN FrameInfo(frame) ELSE all_frames[k]],
                              SubSeq(frames, 1, Len(frames) - 1),
                              Append(stack, FrameInfo(frame)))

SampleCpuByOsThread(b, proc, h, line, stacktrace) ==
    IF stacktrace.os_thread_id # <<>>
       /\ stacktrace.os_thread_id[1] \in DOMAIN line.resources.thread_resources
    THEN CpuDelta(b, line.resources.thread_resources[stacktrace.os_thread_id[1]].cpu)
    ELSE 0

\* the CPU weight of a sample
SampleCpu(b, proc, h, line, stacktrace) ==
    IF h = proc.main_thread_handle THEN CpuDelta(b, line.resources.cpu)
    ELSE IF stacktrace.os_thread_id # <<>>
            /\ stacktrace.os_thread_id[1] \in DOMAIN line.resources.thread_resources
         THEN CpuDelta(b, line.resources.thread_resources[stacktrace.os_thread_id[1]].cpu)
         ELSE 0

RECURSIVE AddStackTraces(_, _, _, _)
\* the loop over line.stacktraces of add_samples
AddStackTraces(b, st, line, traces) ==
    IF traces = <<>> \/ st.status # "ok" THEN st
    ELSE LET stacktrace == Head(traces)
             tid == AsU32(stacktrace.thread_id)
             timestamp == Timestamp(b, line.time)
             p1 == IF ThreadHandle(st.proc, tid) = 0
                   THEN AddThread(st.proc, tid, timestamp, FALSE)
                   ELSE st.proc
             h == ThreadHandle(p1, tid)
             p2 == IF stacktrace.thread_name # <<>>
                   THEN SetThreadName(p1, h, stacktrace.thread_name[1])
                   ELSE p1
             interned == InternFrames(st.all_frames, stacktrace.frames, <<>>)
             \* frames and thread_id are history tags: the frames the stack
             \* was made from and the thread id of the stack trace
             sample == [time |-> timestamp, stack |-> interned.stack,
                        cpu |-> SampleCpu(b, p2, h, line, stacktrace),
                        frames |-> stacktrace.frames,
                        thread_id |-> stacktrace.thread_id]
         IN IF interned.status # "ok"
            THEN [st EXCEPT !.status = "panic"]
            ELSE AddStackTraces(b,
                    [proc |-> [p2 EXCEPT !.threads[h].samples = Append(@, sample)],
                     all_frames |-> interned.all_frames, status |-> "ok"],
                    line, Tail(traces))

RECURSIVE AddLines(_, _, _)
\* the loop over the records of add_samples: assert!(line.time >=
\* self.start_time_millis), the samples, then one value for each counter
AddLines(b, st, lines) ==
    IF lines = <<>> \/ st.status # "ok" THEN st
    ELSE LET line == Head(lines) IN
         IF line.time < st.proc.start_time_millis
         THEN [st EXCEPT !.status = "panic"]
         ELSE LET s1 == AddStackTraces(b, st, line, line.stacktraces)
                  timestamp == Timestamp(b, line.time)
              IN IF s1.status # "ok" THEN s1
                 ELSE AddLines(b,
                        [s1 EXCEPT
                           !.proc.memory_counter =
                               AddValue(@, timestamp, line.resources.memory),
                           !.proc.io_counter =
                               AddValue(@, timestamp,
                                        line.resources.disk_read_bytes
                                        + line.resources.disk_write_bytes)],
                        Tail(lines))

\* ProfileBuilderProcess::add_samples
add_samples(b, proc, samples) ==
    LET st == AddLines(b, [proc |-> proc, all_frames |-> <<>>, status |-> "ok"], samples)
    IN IF st.status = "ok" THEN Ok(st.proc) ELSE Panic("assertion failed")

\* assert!(first_sample.time >= self.start_time_millis) of add_process; the
\* assertion of ProfileBuilderProcess::new has the same operands
FirstSampleAssertion == "assertion failed: first_sample.time >= self.start_time_millis"

\* ProfileBuilder::add_process after its early return: the process of the
\* first record, its main thread and its samples
AddFirstAndSamples(b, pid, samples) ==
    IF samples[1].time < b.start_time_millis THEN Panic(FirstSampleAssertion)
    ELSE LET main == add_main_thread(b, NewProcess(b, samples[1].time, pid), samples) IN
         IF main.status # "ok" THEN main
         ELSE LET done == add_samples(b, main.value, samples) IN
              IF done.status # "ok" THEN done
              ELSE Ok([b EXCEPT !.processes = Append(@, done.value)])

add_process_registers_empty(b, pid, samples) ==
    IF samples = <<>>
    THEN Ok([b EXCEPT !.processes = Append(@, NewProcess(b, b.start_time_millis, pid))])
    ELSE AddFirstAndSamples(b, pid, samples)

\* ProfileBuilder::add_process: no record, nothing to add
add_process(b, pid, samples) ==
    IF samples = <<>> THEN Ok(b) ELSE AddFirstAndSamples(b, pid, samples)

RECURSIVE AddProcesses(_, _, _)
\* for (pid, samples) in processes: the Pid entries, in iteration order
AddProcesses(res, processes, order) ==
    IF order = <<>> \/ res.status # "ok" THEN res
    ELSE AddProcesses(
            IF Head(order) = Global THEN res
            ELSE add_process(res.value, Head(order), processes[Head(order)]),
            processes, Tail(order))

\* generate_fxprof with the map iterated in the given order
generate_fxprof(processes, order) ==
    AddProcesses(from_samples(processes, order), processes, order)

(***************************************************************************)
(* The sessions the export is run on: what read_report returns, a map      *)
(* from identity to the records of its file.                               *)
(***************************************************************************)
\* get_global_info and get_process_info as they are found in a file
GlobalResources == ProcessResources(500, 10, 0, 0, <<>>)
PidResources(memory) == ProcessResources(memory, 50, 0, 0, <<>>)

\* the stack traces of a record of a process: its main thread in one frame
MainStack == <<StackTrace(1, <<MAIN_THREAD_NAME>>, <<>>,
                          <<Frame("run", "/app/app.py", <<"app.py">>, 1, FALSE)>>)>>

GlobalRecord(t) == Record(t, GlobalResources, <<>>)
PidRecord(t, memory) == Record(t, PidResources(memory), MainStack)

RECURSIVE Ascending(_)
\* the elements of a finite set of numbers, smallest first
Ascending(S) ==
    IF S = {} THEN <<>>
    ELSE <<MinOf(S)>> \o Ascending(S \ {MinOf(S)})

Clocks == {"steady", "setback"}
TickTime(c, k) == ClockReading([clock |-> c], k)

\* a session of a process tree: k ticks by the clock c, a Global record for
\* each, and for each process a record for the ticks at[p] it was captured in
TreeSession(c, k, at) ==
    [id \in Identities |->
        IF id = Global
        THEN [i \in 1..k |-> GlobalRecord(TickTime(c, i))]
        ELSE [i \in 1..Cardinality(at[id]) |->
                PidRecord(TickTime(c, Ascending(at[id])[i]), 100)]]

MemoryReadings == {100, 130, 150}

\* a session of one process whose memory is r[i] at tick i
CounterSession(r) ==
    [id \in {Global, RootPid} |->
        IF id = Global
        THEN [i \in DOMAIN r |-> GlobalRecord(TickTime("steady", i))]
        ELSE [i \in DOMAIN r |-> PidRecord(TickTime("steady", i), r[i])]]

\* what a record can report of a process: memory, bytes read, bytes written
Usages == {<<100, 0, 0>>, <<130, 40, 0>>, <<100, 40, 25>>}

\* a session of one process whose usage is u[i] at tick i
UsageSession(u) ==
    [id \in {Global, RootPid} |->
        IF id = Global
        THEN [i \in DOMAIN u |-> GlobalRecord(TickTime("steady", i))]
        ELSE [i \in DOMAIN u |->
                Record(TickTime("steady", i),
                       ProcessResources(u[i][1], 50, u[i][2], u[i][3], <<>>),
                       MainStack)]]

TimeValues == {0, 10, 20, 1000, 1010}

\* a session of Global and one process with the times of the sequence in
\* their files: the first k in Global's, the others in the process's
IntervalSession(times, k) ==
    [id \in {Global, RootPid} |->
        IF id = Global
        THEN [i \in 1..k |-> GlobalRecord(times[i])]
        ELSE [i \in 1..(Len(times) - k) |-> PidRecord(times[k + i], 100)]]

\* the recording is over: none of its actions is enabled
PipeDone ==
    /\ pc = "exit_ok"
    /\ attempts = 1
    /\ last_err = NoError
    /\ quit = TRUE
    /\ spies = {}
    /\ pending = <<>>
    /\ tickNo = 0
    /\ queue = <<>>
    /\ wstate = "ended"
    /\ cur = NoRequest
    /\ file_lines = <<>>
    /\ files = [id \in Identities |-> <<>>]
    /\ writers = 1
    /\ submitted = <<>>
    /\ skipped = {}
    /\ uncaptured = {}
    /\ lastRefresh = NoRefresh
    /\ ioFailed = FALSE
    /\ env = CHOOSE e \in Environments : e.procs = Pids /\ e.flaky

Loaded ==
    /\ order1 = <<>>
    /\ order2 = <<>>
    /\ profile1 = <<>>
    /\ profile2 = <<>>
    /\ builder = <<>>
    /\ NothingRead
    /\ NothingWritten
    /\ epc = "loaded"

(***************************************************************************)
(* SpecExport: export_report run twice on the same session.                *)
(***************************************************************************)
ExportInit ==
    /\ PipeDone
    /\ Loaded
    /\ \/ \E k \in 0..MaxRecords, c \in Clocks :
             \E at \in [Pids -> SUBSET (1..k)] : session = TreeSession(c, k, at)
       \/ \E n \in 0..MaxReadings :
             \E r \in [1..n -> MemoryReadings] : session = CounterSession(r)
       \/ \E n \in 0..MaxReadings :
             \E u \in [1..n -> Usages] : session = UsageSession(u)

\* the first run: the map is iterated in some order
Generate1 ==
    /\ epc = "loaded"
    /\ \E order \in Orderings(DOMAIN session) :
          /\ order1' = order
          /\ profile1' = generate_fxprof(session, order)
    /\ epc' = "built1"
    /\ UNCHANGED <<pipeVars, session, order2, profile2, builder, readVars, writeVars>>

\* the second run: a new map, iterated in some order
Generate2 ==
    /\ epc = "built1"
    /\ \E order \in Orderings(DOMAIN session) :
          /\ order2' = order
          /\ profile2' = generate_fxprof(session, order)
    /\ epc' = "built2"
    /\ UNCHANGED <<pipeVars, session, order1, profile1, builder, readVars, writeVars>>

ExportNext == Generate1 \/ Generate2

SpecExport == ExportInit /\ [][ExportNext]_vars

(***************************************************************************)
(* SpecThreads: the export of one process with several threads and frames. *)
(***************************************************************************)
\* the threads a stack trace can belong to: thread id and name
ThreadChoices ==
    {<<3, <<>>>>, <<3, <<"Loader">>>>, <<3, <<MAIN_THREAD_NAME>>>>,
     <<7, <<"Worker">>>>, <<7, <<MAIN_THREAD_NAME>>>>}

\* the frames of a stack trace: two files with the same short name, two
\* lines of one file, and one line seen as `f` and as the entry frame `main`
FrameChoices ==
    {Frame("f", "/x/a.py", <<"a.py">>, 1, FALSE),
     Frame("f", "/y/a.py", <<"a.py">>, 1, FALSE),
     Frame("g", "/x/a.py", <<"a.py">>, 2, FALSE),
     Frame("main", "/x/a.py", <<"a.py">>, 1, TRUE)}

OneFrame == <<Frame("f", "/x/a.py", <<"a.py">>, 1, FALSE)>>

\* a session of Global and one process with two records; the stack traces
\* of the sequence are in its records: the first k in the first record, the
\* others in the second
StackSession(traces, k) ==
    [id \in {Global, RootPid} |->
        IF id = Global
        THEN [i \in 1..2 |-> GlobalRecord(TickTime("steady", i))]
        ELSE [i \in 1..2 |->
                Record(TickTime("steady", i), PidResources(100),
                       IF i = 1 THEN SubSeq(traces, 1, k)
                       ELSE SubSeq(traces, k + 1, Len(traces)))]]

\* ThreadResources with the CPU percent of an OS thread
ThreadResources(cpu) ==
    [cpu |-> cpu, memory |-> 0, disk_read_bytes |-> 0, disk_write_bytes |-> 0]

\* the thread_resources of a record: no entry, or one for an OS thread
ThreadResourceChoices ==
    {<<>>, [t \in {11} |-> ThreadResources(20)], [t \in {12} |-> ThreadResources(30)]}

\* the threads and OS thread ids of the stack traces of such records
OsThreadChoices ==
    {<<3, <<MAIN_THREAD_NAME>>>>, <<7, <<"Worker">>>>} \X {<<>>, <<11>>}

\* StackSession with thread_resources: tr[i] in record i
CpuSession(traces, k, tr) ==
    [id \in {Global, RootPid} |->
        IF id = Global
        THEN [i \in 1..2 |-> GlobalRecord(TickTime("steady", i))]
        ELSE [i \in 1..2 |->
                Record(TickTime("steady", i),
                       ProcessResources(100, 50, 0, 0, tr[i]),
                       IF i = 1 THEN SubSeq(traces, 1, k)
                       ELSE SubSeq(traces, k + 1, Len(traces)))]]

ThreadsInit ==
    /\ PipeDone
    /\ Loaded
    /\ \/ \E n \in 0..MaxStacks :
             \E th \in [1..n -> ThreadChoices], k \in 0..n :
                session = StackSession(
                    [i \in 1..n |-> StackTrace(th[i][1], th[i][2], <<>>, OneFrame)], k)
       \/ \E second \in {<<3, <<MAIN_THREAD_NAME>>>>, <<7, <<"Worker">>>>}, k \in 0..2 :
             \E n1, n2 \in 0..MaxFrames :
                \E f1 \in [1..n1 -> FrameChoices], f2 \in [1..n2 -> FrameChoices] :
                   session = StackSession(
                       <<StackTrace(3, <<MAIN_THREAD_NAME>>, <<>>, f1),
                         StackTrace(second[1], second[2], <<>>, f2)>>, k)
       \/ \E n \in 0..MaxStacks :
             \E th \in [1..n -> OsThreadChoices], k \in 0..n,
                tr \in [1..2 -> ThreadResourceChoices] :
                session = CpuSession(
                    [i \in 1..n |->
                        StackTrace(th[i][1][1], th[i][1][2], th[i][2], OneFrame)], k, tr)

SpecThreads == ThreadsInit /\ [][Generate1]_vars

(***************************************************************************)
(* SpecThreadIds: the export of one process whose thread ids are 64-bit    *)
(* values, some of them beyond the 32 bits of `as u32`.                    *)
(***************************************************************************)
\* thread ids below 2^32 and the id that has the low 32 bits of one of them
WideThreadChoices ==
    {<<3, <<MAIN_THREAD_NAME>>>>, <<7, <<"Worker">>>>,
     <<3 + 2 ^ U32Bits, <<"Worker">>>>, <<3 + 2 ^ U32Bits, <<>>>>}

ThreadIdsInit ==
    /\ PipeDone
    /\ Loaded
    /\ \E n \in 0..MaxStacks :
          \E th \in [1..n -> WideThreadChoices], k \in 0..n :
             session = StackSession(
                 [i \in 1..n |-> StackTrace(th[i][1], th[i][2], <<>>, OneFrame)], k)

SpecThreadIds == ThreadIdsInit /\ [][Generate1]_vars

(***************************************************************************)
(* SpecInterval: ProfileBuilder::from_samples on a session.                *)
(***************************************************************************)
IntervalInit ==
    /\ PipeDone
    /\ Loaded
    /\ \E n \in 0..MaxStream :
          \E times \in [1..n -> TimeValues], k \in 0..n :
             session = IntervalSession(times, k)

FromSamples ==
    /\ epc = "loaded"
    /\ \E order \in Orderings(DOMAIN session) :
          /\ order1' = order
          /\ builder' = from_samples(session, order)
    /\ epc' = "estimated"
    /\ UNCHANGED <<pipeVars, session, order2, profile1, profile2, readVars, writeVars>>

IntervalNext == FromSamples

SpecInterval == IntervalInit /\ [][IntervalNext]_vars

(***************************************************************************)
(* read_report.  A file name is a sequence of characters; a run of letters *)
(* counts as one character, since the code only looks at dots, signs and   *)
(* digits and compares the whole stem with "global".                       *)
(***************************************************************************)
\* ReportIdentifier
PidIdentifier(n) == [kind |-> "Pid", pid |-> n]
GlobalIdentifier == [kind |-> "Global", pid |-> 0]

MaxOf(S) == CHOOSE x \in S : \A y \in S : x >= y

\* Path::file_stem: the name up to its last dot; the whole name when it has
\* no dot or only a leading one
file_stem(name) ==
    LET dots == {i \in DOMAIN name : name[i] = "."} IN
    IF dots = {} \/ MaxOf(dots) = 1 THEN name
    ELSE SubSeq(name, 1, MaxOf(dots) - 1)

DecimalDigits == <<"0", "1", "2", "3", "4", "5", "6", "7", "8", "9">>
IsDigit(c) == \E d \in DOMAIN DecimalDigits : DecimalDigits[d] = c
DigitValue(c) == (CHOOSE d \in DOMAIN DecimalDigits : DecimalDigits[d] = c) - 1

\* u32::MAX, with the width of the model
U32Max == 2 ^ U32Bits - 1

RECURSIVE ParseDigits(_, _)
\* the digit loop of str::parse::<u32>: checked_mul and checked_add
ParseDigits(chars, acc) ==
    IF chars = <<>> THEN Ok(acc)
    ELSE IF ~IsDigit(Head(chars)) THEN Err("invalid digit found in string")
    ELSE IF acc * 10 + DigitValue(Head(chars)) > U32Max
    THEN Err("number too large to fit in target type")
    ELSE ParseDigits(Tail(chars), acc * 10 + DigitValue(Head(chars)))

\* name.parse::<u32>(): one optional plus sign, then one digit or more
parse_u32(name) ==
    IF name = <<>> THEN Err("cannot parse integer from empty string")
    ELSE IF name = <<"+">> \/ name = <<"-">> THEN Err("invalid digit found in string")
    ELSE IF Head(name) = "+" THEN ParseDigits(Tail(name), 0)
    ELSE ParseDigits(name, 0)

report_identifier_or_global(name) ==
    IF parse_u32(name).status = "ok" THEN Ok(PidIdentifier(parse_u32(name).value))
    ELSE Ok(GlobalIdentifier)

\* the identity of a file with the stem `name`
report_identifier(name) ==
    IF name = <<"global">> THEN Ok(GlobalIdentifier)
    ELSE IF parse_u32(name).status = "ok" THEN Ok(PidIdentifier(parse_u32(name).value))
    ELSE Err("could not parse pid")

\* a line of a file: the text of a record, or text that is no record
JsonText(record) == [json |-> TRUE, value |-> record]
Garbage == [json |-> FALSE, value |-> <<>>]

\* serde_json::from_str::<JsonLine>(line)
from_str(line) ==
    IF line.json THEN Ok(line.value) ELSE Err("could not deserialize line")

ParseLinesLenient(lines, parsed) ==
    LET good == SelectSeq(lines, LAMBDA l : l.json)
    IN Ok([i \in DOMAIN good |-> good[i].value])

RECURSIVE ParseLines(_, _)
\* .lines().map(from_str).collect::<Result<Vec<_>, _>>(): the first error,
\* or all the records
ParseLines(lines, parsed) ==
    IF lines = <<>> THEN Ok(parsed)
    ELSE IF from_str(Head(lines)).status # "ok" THEN from_str(Head(lines))
    ELSE ParseLines(Tail(lines), Append(parsed, from_str(Head(lines)).value))

MapInsertMerging(map, key, value) ==
    [k \in DOMAIN map \cup {key} |->
        IF k # key THEN map[k]
        ELSE IF key \in DOMAIN map THEN map[key] \o value ELSE value]

\* HashMap::insert
MapInsert(map, key, value) ==
    [k \in DOMAIN map \cup {key} |-> IF k = key THEN value ELSE map[k]]

\* the body of the loop of read_report for one directory entry: Ok with the
\* map after the insert, or the error that read_report returns
read_entry(map, name, content) ==
    IF ~content.readable THEN Err("could not read file")
    ELSE LET lines == ParseLines(content.lines, <<>>)
             pid == report_identifier(file_stem(name))
         IN IF lines.status # "ok" THEN lines
            ELSE IF pid.status # "ok" THEN pid
            ELSE Ok(MapInsert(map, pid.value, lines.value))

RECURSIVE ToDigits(_)
\* the decimal digits of a number
ToDigits(n) ==
    IF n < 10 THEN <<DecimalDigits[n + 1]>>
    ELSE ToDigits(n \div 10) \o <<DecimalDigits[(n % 10) + 1]>>

\* the file names of the directories that are read
FileNames ==
    {<<"global", ".", "json">>, <<"global">>, <<"Global", ".", "json">>,
     <<"1", ".", "json">>, <<"2", ".", "json">>, <<"0", "1", ".", "json">>,
     <<"+", "1", ".", "json">>, <<"-", "1", ".", "json">>,
     <<"notes", ".", "txt">>, ToDigits(U32Max + 1) \o <<".", "json">>}

\* the contents of the files: no line, two records, a record and a line that
\* is none in either order, and a file that cannot be read
FileContents ==
    {[readable |-> TRUE, lines |-> <<>>],
     [readable |-> TRUE,
      lines |-> <<JsonText(PidRecord(10, 100)), JsonText(PidRecord(20, 130))>>],
     [readable |-> TRUE, lines |-> <<JsonText(PidRecord(10, 100)), Garbage>>],
     [readable |-> TRUE, lines |-> <<Garbage, JsonText(PidRecord(20, 130))>>],
     [readable |-> FALSE, lines |-> <<>>]}

(***************************************************************************)
(* SpecRead: read_report on a directory of at most MaxFiles files, which   *)
(* read_dir yields in any order.                                           *)
(***************************************************************************)
ReadInit ==
    /\ PipeDone
    /\ session = <<>>
    /\ order1 = <<>>
    /\ order2 = <<>>
    /\ profile1 = <<>>
    /\ profile2 = <<>>
    /\ builder = <<>>
    /\ epc = "reading"
    /\ \E names \in SUBSET FileNames :
          /\ Cardinality(names) <= MaxFiles
          /\ data_dir \in [names -> FileContents]
          /\ unread = names
    /\ all_processes = <<>>
    /\ report = <<>>
    /\ NothingWritten

\* read_dir fails: "could not open data dir"
OpenDirFails ==
    /\ epc = "reading"
    /\ unread = DOMAIN data_dir
    /\ report' = Err("could not open data dir")
    /\ all_processes' = <<>>
    /\ epc' = "read"
    /\ UNCHANGED <<pipeVars, session, order1, order2, profile1, profile2, builder,
                   data_dir, unread, writeVars>>

\* one turn of the loop: the next entry is read, parsed and inserted, or its
\* error is returned and the map dropped
ReadEntry ==
    /\ epc = "reading"
    /\ \E name \in unread :
          LET r == read_entry(all_processes, name, data_dir[name]) IN
          /\ unread' = unread \ {name}
          /\ IF r.status = "ok"
             THEN /\ all_processes' = r.value
                  /\ UNCHANGED <<report, epc>>
             ELSE /\ all_processes' = <<>>
                  /\ report' = r
                  /\ epc' = "read"
    /\ UNCHANGED <<pipeVars, session, order1, order2, profile1, profile2, builder,
                   data_dir, writeVars>>

\* no entry is left: Ok(all_processes)
ReadDone ==
    /\ epc = "reading"
    /\ unread = {}
    /\ report' = Ok(all_processes)
    /\ epc' = "read"
    /\ UNCHANGED <<pipeVars, session, order1, order2, profile1, profile2, builder,
                   data_dir, unread, all_processes, writeVars>>

ReadNext == OpenDirFails \/ ReadEntry \/ ReadDone

SpecRead == ReadInit /\ [][ReadNext]_vars

(***************************************************************************)
(* SpecExportReport: export_report, from read_report to the return of      *)
(* write_profile.                                                          *)
(***************************************************************************)
\* the key of an identity in the sessions of generate_fxprof
IdentityOf(k) == IF k.kind = "Global" THEN Global ELSE k.pid

\* the map read_report returned, as a session
SessionOf(map) ==
    [id \in {IdentityOf(k) : k \in DOMAIN map} |->
        map[CHOOSE k \in DOMAIN map : IdentityOf(k) = id]]

\* File::create(output_path) succeeded: the file exists and is empty
Truncated == [state |-> "empty", profile |-> <<>>]
\* the encoder has written some of the profile and no trailer
Partial(profile) == [state |-> "partial", profile |-> profile]
\* the whole compressed stream of the profile, with its trailer
Finalized(profile) == [state |-> "finalized", profile |-> profile]

\* ExportError with its variant
ExportErr(variant) == [status |-> "err", value |-> <<>>, error |-> variant]

finish_result_ignored(finished) == Ok(<<>>)

\* gz.finish().context(WriteOutputGzSnafu {..})?; Ok(())
finish_result(finished) ==
    IF finished THEN Ok(<<>>) ELSE ExportErr("WriteOutputGz")

\* the files export_report is run on: a file of records without any stack
\* trace is added to those of read_report
Stackless ==
    [readable |-> TRUE,
     lines |-> <<JsonText(Record(10, PidResources(100), <<>>)),
                 JsonText(Record(20, PidResources(130), <<>>))>>]

\* a file whose second record is earlier than its first
SetBack ==
    [readable |-> TRUE,
     lines |-> <<JsonText(PidRecord(20, 100)), JsonText(PidRecord(10, 130))>>]

\* a file of one record without any stack trace
StacklessOnce ==
    [readable |-> TRUE, lines |-> <<JsonText(Record(10, PidResources(100), <<>>))>>]

ExportFileContents == FileContents \cup {Stackless, StacklessOnce, SetBack}

ExportFileNames ==
    {<<"global", ".", "json">>, <<"1", ".", "json">>, <<"2", ".", "json">>,
     <<"notes", ".", "txt">>}

ExportReportInit ==
    /\ PipeDone
    /\ session = <<>>
    /\ order1 = <<>>
    /\ order2 = <<>>
    /\ profile1 = <<>>
    /\ profile2 = <<>>
    /\ builder = <<>>
    /\ epc = "reading"
    /\ \E names \in SUBSET ExportFileNames :
          /\ Cardinality(names) <= MaxFiles
          /\ data_dir \in [names -> ExportFileContents]
          /\ unread = names
    /\ all_processes = <<>>
    /\ report = <<>>
    /\ output_file \in {NoFile, EarlierFile}
    /\ output_before = output_file
    /\ result = <<>>
    /\ io_log = <<>>

\* read_report(data_dir).context(ReadReportSnafu)? returns the error
ReadFailed ==
    /\ epc = "read"
    /\ report.status # "ok"
    /\ result' = ExportErr("ReadReport")
    /\ epc' = "done"
    /\ UNCHANGED <<pipeVars, session, order1, order2, profile1, profile2, builder,
                   readVars, output_file, output_before, io_log>>

GenerateProfileInPlace ==
    /\ epc = "read"
    /\ report.status = "ok"
    /\ session' = SessionOf(report.value)
    /\ \E order \in Orderings(DOMAIN SessionOf(report.value)) :
          LET profile == generate_fxprof(SessionOf(report.value), order) IN
          /\ order1' = order
          /\ profile1' = profile
          /\ output_file' = Truncated
          /\ IF profile.status = "ok"
             THEN epc' = "generated" /\ UNCHANGED result
             ELSE /\ epc' = "done"
                  /\ result' = IF profile.status = "panic" THEN profile
                               ELSE ExportErr("FirefoxProfile")
    /\ UNCHANGED <<pipeVars, order2, profile2, builder, readVars, output_before, io_log>>

\* generate_fxprof(process_to_profile).context(FirefoxProfileSnafu)?: the
\* profile, or the error is returned; a failed assertion unwinds
GenerateProfile ==
    /\ epc = "read"
    /\ report.status = "ok"
    /\ session' = SessionOf(report.value)
    /\ \E order \in Orderings(DOMAIN SessionOf(report.value)) :
          LET profile == generate_fxprof(SessionOf(report.value), order) IN
          /\ order1' = order
          /\ profile1' = profile
          /\ IF profile.status = "ok"
             THEN epc' = "generated" /\ UNCHANGED result
             ELSE /\ epc' = "done"
                  /\ result' = IF profile.status = "panic" THEN profile
                               ELSE ExportErr("FirefoxProfile")
    /\ UNCHANGED <<pipeVars, order2, profile2, builder, readVars, output_file,
                   output_before, io_log>>

\* write_profile: File::create(output_path).context(WriteOutputSnafu {..})?
CreateOutput ==
    /\ epc = "generated"
    /\ \E created \in BOOLEAN :
          /\ io_log' = Append(io_log, [step |-> "create", ok |-> created])
          /\ IF created
             THEN /\ output_file' = Truncated
                  /\ epc' = "created"
                  /\ UNCHANGED result
             ELSE /\ result' = ExportErr("WriteOutput")
                  /\ epc' = "done"
                  /\ UNCHANGED output_file
    /\ UNCHANGED <<pipeVars, session, order1, order2, profile1, profile2, builder,
                   readVars, output_before>>

\* serde_json::to_writer(&mut gz, &profile).context(SerializeReportsSnafu)?:
\* the encoder may have written a part of the stream to the file
Serialize ==
    /\ epc = "created"
    /\ \E serialized \in BOOLEAN :
          /\ io_log' = Append(io_log, [step |-> "serialize", ok |-> serialized])
          /\ output_file' \in {Truncated, Partial(profile1.value)}
          /\ IF serialized
             THEN epc' = "serialized" /\ UNCHANGED result
             ELSE result' = ExportErr("SerializeReports") /\ epc' = "done"
    /\ UNCHANGED <<pipeVars, session, order1, order2, profile1, profile2, builder,
                   readVars, output_before>>

\* gz.finish() and the return of write_profile and of export_report
Finish ==
    /\ epc = "serialized"
    /\ \E finished \in BOOLEAN :
          /\ io_log' = Append(io_log, [step |-> "finish", ok |-> finished])
          /\ IF finished
             THEN output_file' = Finalized(profile1.value)
             ELSE output_file' \in {output_file, Partial(profile1.value)}
          /\ result' = finish_result(finished)
    /\ epc' = "done"
    /\ UNCHANGED <<pipeVars, session, order1, order2, profile1, profile2, builder,
                   readVars, output_before>>

ExportReportNext ==
    \/ OpenDirFails
    \/ ReadEntry
    \/ ReadDone
    \/ ReadFailed
    \/ GenerateProfile
    \/ CreateOutput
    \/ Serialize
    \/ Finish

SpecExportReport == ExportReportInit /\ [][ExportReportNext]_vars

(***************************************************************************)
(* Claims about the recording session (Spec).                              *)
(***************************************************************************)
\* the requests the main thread still holds, has buffered, or the writer holds
InHand == IF wstate = "write" THEN <<cur>> ELSE <<>>

\* the request of tick k for path id has reached a file
Written(r) ==
    \E j \in DOMAIN files[r.output_path] : files[r.output_path][j].tick = r.tick

AllWritten == \A i \in DOMAIN submitted : Written(submitted[i])

RecordsWritten ==
    LET RECURSIVE Total(_)
        Total(S) == IF S = {} THEN 0
                    ELSE LET x == CHOOSE y \in S : TRUE
                         IN Len(files[x]) + Total(S \ {x})
    IN Total(Identities)

\* C1: in every file the index of the i-th record (counting from 0) is i: the
\* written indices of an identity are 0,1,2,... without gap or duplicate,
\* however the requests of the other identities interleave.
C1_IndexSequence ==
    \A id \in Identities :
        \A i \in DOMAIN files[id] : files[id][i].index = i - 1

\* two identities have each got two records, written alternately
C1_Witness ==
    /\ Len(files[Global]) >= 2
    /\ Len(files[RootPid]) >= 2
    /\ files[RootPid][1].tick < files[RootPid][2].tick

\* C2: when the loop stopped cleanly and the process has exited with status
\* 0 without any write failure, every submitted request is in its file.
C2_NoLossOnCleanStop ==
    (pc = "exit_ok" /\ ~ioFailed) => AllWritten

\* C5: the records of a file are the requests submitted for that identity,
\* in submission order: the i-th record comes from the i-th request.
C5_FileOrderIsSubmissionOrder ==
    \A id \in Identities :
        LET sent == SeqFilter(submitted, id) IN
        /\ Len(files[id]) <= Len(sent)
        /\ \A i \in DOMAIN files[id] :
              /\ files[id][i].tick = sent[i].tick
              /\ files[id][i].time = sent[i].time
              /\ files[id][i].stacktraces = sent[i].stacktraces
              /\ files[id][i].resources = sent[i].resources

\* a file holds two records while a later request of its identity is queued
C5_Witness ==
    \E id \in Identities :
        /\ Len(files[id]) >= 2
        /\ Len(SeqFilter(queue, id)) >= 1

\* C6: the buffer never holds more than its capacity, and while the writer
\* runs every accepted request is written, held by the writer, or buffered,
\* in submission order: a full buffer drops and overwrites nothing.
C6_BoundedQueueLosesNothing ==
    /\ Len(queue) <= ChannelCapacity
    /\ wstate \in {"recv", "write"} =>
          /\ RecordsWritten + Len(InHand) + Len(queue) = Len(submitted)
          /\ SubSeq(submitted, RecordsWritten + 1, Len(submitted)) = InHand \o queue
          /\ \A i \in 1..RecordsWritten : Written(submitted[i])

\* the buffer is full, the tick waits in send, and after the writer has
\* taken requests out before, the tick's earlier sends went through
C6_Witness ==
    /\ pc = "send"
    /\ Len(queue) = ChannelCapacity
    /\ wstate = "write"
    /\ RecordsWritten >= 1

\* C7: a pid whose lookup was empty in a tick gets no request in that tick,
\* and the records around the skipped tick keep consecutive indices.
C7_SkippedTickLeavesNoGap ==
    \A sk \in skipped :
        LET k == sk[1]
            p == sk[2] IN
        /\ \A i \in DOMAIN submitted :
              ~(submitted[i].tick = k /\ submitted[i].output_path = p)
        /\ \A i \in DOMAIN pending :
              ~(pending[i].tick = k /\ pending[i].output_path = p)
        /\ \A i \in DOMAIN files[p] : files[p][i].tick # k
        /\ \A i \in DOMAIN files[p] :
              (i + 1 \in DOMAIN files[p]
               /\ files[p][i].tick < k /\ k < files[p][i + 1].tick)
                 => files[p][i + 1].index = files[p][i].index + 1
        /\ (files[p] # <<>> /\ k < files[p][1].tick) => files[p][1].index = 0

\* a record before the skipped tick and the next record after it
C7_Witness ==
    \E sk \in skipped : \E i \in DOMAIN files[sk[2]] :
        /\ i + 1 \in DOMAIN files[sk[2]]
        /\ files[sk[2]][i].tick < sk[1]
        /\ sk[1] < files[sk[2]][i + 1].tick

\* the requests of tick k, in submission order
OfTick(s, k) == SelectSeq(s, LAMBDA r : r.tick = k)

\* C8: every tick that ran to its end submitted exactly one Global request,
\* as the last request of the tick; a running tick has it as its last
\* pending request; every Global request and record has no stack trace.
C8_OneGlobalRequestPerTick ==
    /\ \A k \in 1..tickNo :
          LET reqs == OfTick(submitted, k) IN
          (k < tickNo \/ pending = <<>>) =>
              /\ reqs # <<>>
              /\ reqs[Len(reqs)].output_path = GlobalPath
              /\ \A i \in 1..(Len(reqs) - 1) : reqs[i].output_path # GlobalPath
    /\ pending # <<>> =>
          /\ pending[Len(pending)].output_path = GlobalPath
          /\ \A i \in 1..(Len(pending) - 1) : pending[i].output_path # GlobalPath
          /\ \A i \in DOMAIN submitted :
                submitted[i].tick = tickNo => submitted[i].output_path # GlobalPath
    /\ \A i \in DOMAIN submitted :
          submitted[i].output_path = GlobalPath => submitted[i].stacktraces = <<>>
    /\ \A i \in DOMAIN pending :
          pending[i].output_path = GlobalPath => pending[i].stacktraces = <<>>
    /\ \A i \in DOMAIN files[GlobalPath] : files[GlobalPath][i].stacktraces = <<>>

\* a tick with a request per process and one with none have both ended
\* and their Global records are written
C8_Witness ==
    /\ pending = <<>>
    /\ \E k1, k2 \in 1..tickNo :
          /\ Len(OfTick(submitted, k1)) = 1
          /\ Len(OfTick(submitted, k2)) = Cardinality(Pids) + 1
    /\ Len(files[GlobalPath]) >= 2

\* C9: once an open or a write has failed, the process does not exit with
\* status 0 while a submitted request is missing from its file.
C9_WriteFailureAborts ==
    (pc = "exit_ok" /\ ioFailed) => AllWritten

(***************************************************************************)
(* Claims about the export (SpecExport, SpecInterval).                     *)
(***************************************************************************)
TimesOf(samples) == [i \in DOMAIN samples |-> samples[i].time]
Readings(samples) == [i \in DOMAIN samples |-> samples[i].resources.memory]
MemoryValues(proc) ==
    [i \in DOMAIN proc.memory_counter.samples |-> proc.memory_counter.samples[i].value]

\* the first run has produced a profile
Built == epc \in {"built1", "built2"} /\ profile1.status = "ok"

\* every process of the session that has records is a process of the profile
AllRegistered ==
    \A p \in DOMAIN session \ {Global} :
        session[p] # <<>> =>
            \E i \in DOMAIN profile1.value.processes :
                profile1.value.processes[i].pid = p

\* C3 (as stated): the memory counter of a process with the readings r1..rn
\* is the stream [0, r2-r1, ..., rn-r(n-1)].
C3_DeltaStreamOfReadings ==
    Built =>
        /\ AllRegistered
        /\ \A i \in DOMAIN profile1.value.processes :
              LET proc == profile1.value.processes[i]
                  r == Readings(session[proc.pid])
              IN MemoryValues(proc) =
                    [j \in 1..Len(r) |-> IF j = 1 THEN 0 ELSE r[j] - r[j - 1]]

\* C3 (amended): the memory counter of a process with the readings r1..rn has
\* n+1 samples [0, r1, r2-r1, ..., rn-r(n-1)]: the baseline 0 at the start of
\* the process, the first reading as the difference to that baseline, then
\* the difference of each reading to the one before it; for the readings
\* [100,150,130] the stream is [0,100,50,-20].
C3_DeltaStreamFromZeroBaseline ==
    Built =>
        /\ AllRegistered
        /\ \A i \in DOMAIN profile1.value.processes :
              LET proc == profile1.value.processes[i]
                  r == Readings(session[proc.pid])
              IN /\ MemoryValues(proc) =
                       [j \in 1..(Len(r) + 1) |->
                           IF j = 1 THEN 0
                           ELSE IF j = 2 THEN r[1]
                           ELSE r[j - 1] - r[j - 2]]
                 /\ r = <<100, 150, 130>> => MemoryValues(proc) = <<0, 100, 50, -20>>

C3_Witness ==
    /\ Built
    /\ RootPid \in DOMAIN session
    /\ Readings(session[RootPid]) = <<100, 150, 130>>
    /\ \E i \in DOMAIN profile1.value.processes :
          /\ profile1.value.processes[i].pid = RootPid
          /\ MemoryValues(profile1.value.processes[i]) = <<0, 100, 50, -20>>

\* C4: two runs of the export on the same session produce the same profile,
\* whatever the iteration order of the map of identities.
C4_SameProfileInBothRuns ==
    epc = "built2" =>
        /\ profile1.status = profile2.status
        /\ profile1.error = profile2.error
        /\ profile1.status = "ok" => profile1.value = profile2.value

\* the medians of a list of numbers: its middle element, or its two
\* middle elements
Medians(d) ==
    IF d = <<>> THEN {}
    ELSE {SortUnstable(d)[(Len(d) + 1) \div 2], SortUnstable(d)[Len(d) \div 2 + 1]}

\* the differences of consecutive times
ConsecutiveDeltas(times) == [i \in 1..(Len(times) - 1) |-> times[i + 1] - times[i]]

\* all elements of d but at most one are v
AllButOne(d, v) == \E j \in DOMAIN d : \A i \in DOMAIN d \ {j} : d[i] = v

\* the times of all records of the session, earliest first
TimeOrdered(s) == SortUnstable(TimesOf(FlatMap(s, Ascending(DOMAIN s))))

\* C10 (as stated): the sampling interval is the median of the consecutive
\* time deltas of the time-ordered stream of all records of the session, and
\* a single outlier delta does not change it.
C10_MedianOfTimeOrderedStream ==
    (epc = "estimated" /\ builder.status = "ok") =>
        LET d == ConsecutiveDeltas(TimeOrdered(session)) IN
        /\ builder.value.interval_millis \in Medians(d)
        /\ \A v \in Range(d) : AllButOne(d, v) => builder.value.interval_millis = v

\* C10 (amended): the sampling interval is taken from the stream that lists
\* the records identity after identity, in the iteration order of the map and
\* in file order within an identity.  Of its n consecutive deltas, where a
\* step back in time counts as 0, it is the upper median: a delta that at
\* most n/2 (rounded down) deltas are below and that at least n/2+1 deltas do
\* not exceed.  With less than two records there is no interval and the
\* export fails with "no samples found".  For the times [0,10,20,1000,1010]
\* of one identity the interval is 10; with three deltas or more, one outlier
\* among equal deltas does not change it.
C10_UpperMedianOfStoredOrder ==
    epc = "estimated" =>
        LET times == TimesOf(FlatMap(session, order1))
            n == Len(times) - 1
            d == [i \in 1..n |-> IF times[i + 1] >= times[i]
                                 THEN times[i + 1] - times[i] ELSE 0]
        IN IF n < 1
           THEN builder.status = "err" /\ builder.error = "no samples found"
           ELSE /\ builder.status = "ok"
                /\ LET m == builder.value.interval_millis IN
                   /\ \E i \in 1..n : d[i] = m
                   /\ Cardinality({i \in 1..n : d[i] < m}) <= n \div 2
                   /\ Cardinality({i \in 1..n : d[i] <= m}) >= n \div 2 + 1
                   /\ \A v \in Range(d) : (n >= 3 /\ AllButOne(d, v)) => m = v
                   /\ times = <<0, 10, 20, 1000, 1010>> => m = 10

C10_Witness ==
    /\ epc = "estimated"
    /\ session[Global] = <<>>
    /\ TimesOf(session[RootPid]) = <<0, 10, 20, 1000, 1010>>
    /\ builder.status = "ok"
    /\ builder.value.interval_millis = 10

(***************************************************************************)
(* Claims about the threads and frames of a process (SpecThreads).         *)
(***************************************************************************)
\* the stack traces of all records of an identity, in file order
RECURSIVE AllTraces(_)
AllTraces(samples) ==
    IF samples = <<>> THEN <<>>
    ELSE Head(samples).stacktraces \o AllTraces(Tail(samples))

\* the ids of the threads of the records, and of those named MainThread
ThreadIds(samples) == {AllTraces(samples)[i].thread_id : i \in DOMAIN AllTraces(samples)}
MainThreadIds(samples) ==
    {AllTraces(samples)[i].thread_id :
        i \in {j \in DOMAIN AllTraces(samples) :
                 AllTraces(samples)[j].thread_name = <<MAIN_THREAD_NAME>>}}

MainThreadOf(proc) == proc.threads[proc.main_thread_handle]

\* C11: the main thread of a process is the thread with the lowest id among
\* the threads named MainThread in any of its records, and the thread with
\* the lowest id of all when none is so named (threads 7 "Worker" and 3
\* "Loader" give thread 3), in whatever order the records list the threads.
C11_MainThreadSelection ==
    Built =>
        \A i \in DOMAIN profile1.value.processes :
            LET proc == profile1.value.processes[i]
                samples == session[proc.pid]
            IN /\ proc.main_thread_handle \in DOMAIN proc.threads
               /\ MainThreadOf(proc).is_main
               /\ MainThreadOf(proc).tid =
                     IF MainThreadIds(samples) # {} THEN MinOf(MainThreadIds(samples))
                     ELSE MinOf(ThreadIds(samples))
               /\ \A j \in DOMAIN proc.threads :
                     proc.threads[j].is_main => j = proc.main_thread_handle

\* the threads 7 "Worker" and 3 "Loader", the higher id first: thread 3
C11_Witness ==
    /\ Built
    /\ RootPid \in DOMAIN session
    /\ Len(AllTraces(session[RootPid])) = 2
    /\ AllTraces(session[RootPid])[1].thread_id = 7
    /\ AllTraces(session[RootPid])[1].thread_name = <<"Worker">>
    /\ AllTraces(session[RootPid])[2].thread_id = 3
    /\ AllTraces(session[RootPid])[2].thread_name = <<"Loader">>
    /\ \E i \in DOMAIN profile1.value.processes :
          MainThreadOf(profile1.value.processes[i]).tid = 3

\* the frames of the samples of a process: thread, sample and position in
\* the stack trace the sample was made from
FrameUses(proc) ==
    {<<h, k, p>> \in (DOMAIN proc.threads) \X (1..MaxStacks) \X (1..MaxFrames) :
        /\ k \in DOMAIN proc.threads[h].samples
        /\ p \in DOMAIN proc.threads[h].samples[k].frames}

\* the recorded frame of a use, and the interned frame it resolved to (the
\* stack lists the frames in reverse)
RecordedFrame(proc, u) == proc.threads[u[1]].samples[u[2]].frames[u[3]]
InternedFrame(proc, u) ==
    LET sample == proc.threads[u[1]].samples[u[2]]
    IN sample.stack[Len(sample.frames) - u[3] + 1]
FileAndLine(frame) == <<frame.filename, frame.line>>

\* frames with equal (filename, line) resolve to the same interned frame
SameKeySameFrame(proc) ==
    \A u, v \in FrameUses(proc) :
        FileAndLine(RecordedFrame(proc, u)) = FileAndLine(RecordedFrame(proc, v))
            => InternedFrame(proc, u) = InternedFrame(proc, v)

\* frames with distinct (filename, line) resolve to distinct interned frames
DistinctKeyDistinctFrame(proc) ==
    \A u, v \in FrameUses(proc) :
        FileAndLine(RecordedFrame(proc, u)) # FileAndLine(RecordedFrame(proc, v))
            => InternedFrame(proc, u) # InternedFrame(proc, v)

\* C12: in the samples of a process, two frames with equal (filename, line)
\* resolve to the same interned frame and two frames with distinct
\* (filename, line) never do.
C12_InterningByFileAndLine ==
    Built =>
        \A i \in DOMAIN profile1.value.processes :
            /\ SameKeySameFrame(profile1.value.processes[i])
            /\ DistinctKeyDistinctFrame(profile1.value.processes[i])

\* what holds of the interning: equal (filename, line), same interned frame
EqualKeysShareTheFrame ==
    Built =>
        \A i \in DOMAIN profile1.value.processes :
            SameKeySameFrame(profile1.value.processes[i])

(***************************************************************************)
(* Claims about attaching, the sampling loop and refresh (Spec).           *)
(***************************************************************************)
\* a session is running, or has run
Attached == pc \notin {"attach", "exit_err"}

\* what holds of the attempts in every state
AttachAttemptsBounded ==
    /\ attempts <= MaxAttachAttempts
    /\ pc = "attach" =>
          /\ attempts < MaxAttachAttempts
          /\ last_err = IF attempts = 0 THEN NoError ELSE AttachError(attempts)
          /\ spies = {} /\ writers = 0 /\ tickNo = 0 /\ submitted = <<>>
    /\ pc = "exit_err" =>
          /\ attempts = MaxAttachAttempts
          /\ last_err = AttachError(MaxAttachAttempts)
          /\ spies = {} /\ writers = 0 /\ tickNo = 0 /\ submitted = <<>>
    /\ Attached => attempts >= 1 /\ last_err = NoError

\* what holds of every step: the attempt that succeeds starts the session
\* with the root tracked, and no attempt is made once a tracker is returned
AttachStep ==
    /\ (pc = "attach" /\ pc' = "loop") => (spies' = {RootPid} /\ attempts' = attempts + 1)
    /\ Attached => (Attached' /\ attempts' = attempts)
    /\ pc = "exit_err" => (pc' = "exit_err" /\ attempts' = attempts)

\* C13: attaching to the root is attempted at most 5 times; the first attempt
\* that succeeds returns the tracker and no further attempt is made; the
\* error of the last attempt is returned only after 5 failures in a row, and
\* then no session runs.
C13_AttachAtMostFiveTimes == []AttachAttemptsBounded /\ [][AttachStep]_vars

C13_Witness ==
    /\ pc = "exit_err"
    /\ attempts = MaxAttachAttempts
    /\ last_err = AttachError(MaxAttachAttempts)

\* the sampling loop is over
LoopStopped == pc \in {"returned", "exit_ok", "panicked"}

\* a step that starts a tick is taken with a tracked process and no interrupt
TickStartStep == tickNo' # tickNo => (spies # {} /\ ~quit)

\* a refresh in which every tracked process fails its probe and no child is
\* attached leaves nothing tracked
RefreshEmptiesStep ==
    (tickNo' # tickNo /\ lastRefresh'.exited = spies /\ lastRefresh'.attached = {})
        => spies' = {}

\* C14: a tick starts only while a process is tracked and no interrupt was
\* observed; when every tracked process has failed its liveness probe and
\* no child was attached, nothing is tracked and the loop eventually stops.
C14_LoopStopsWhenNothingTracked ==
    /\ [][TickStartStep /\ RefreshEmptiesStep]_vars
    /\ (tickNo > 0 /\ spies = {}) ~> LoopStopped

\* the loop has stopped without an interrupt, after a tick in which the last
\* tracked process failed its probe
C14_Witness ==
    /\ pc = "returned"
    /\ ~quit
    /\ tickNo > 0
    /\ spies = {}
    /\ lastRefresh.before # {}
    /\ lastRefresh.exited = lastRefresh.before

\* the requests the ticks have made so far, sent or still to send
Requested == submitted \o pending

HasRequest(k, id) ==
    \E i \in DOMAIN Requested :
        Requested[i].tick = k /\ Requested[i].output_path = id

\* a request that was sent is in the channel, with the writer, or in its file
Kept(r) ==
    \/ \E i \in DOMAIN queue : queue[i] = r
    \/ (wstate = "write" /\ cur = r)
    \/ Written(r)

\* C15: a tracked process whose stack capture fails in a tick gets no record
\* in that tick and stays tracked; the other identities of the tick get
\* their requests, which are kept while the writer runs; and the ticks that
\* follow are recorded as any other.
C15_CaptureFailureSkipsOneTick ==
    /\ \A f \in uncaptured :
          /\ ~HasRequest(f[1], f[2])
          /\ \A i \in DOMAIN files[f[2]] : files[f[2]][i].tick # f[1]
          /\ f[1] = tickNo => f[2] \in spies
    /\ tickNo > 0 =>
          /\ HasRequest(tickNo, Global)
          /\ \A q \in spies :
                (<<tickNo, q>> \notin uncaptured \cup skipped) => HasRequest(tickNo, q)
    /\ (Running /\ ~ioFailed) => \A i \in DOMAIN submitted : Kept(submitted[i])

\* the capture of a process failed in a tick, the Global record of that
\* tick is in its file, and a record of the process of a later tick is in
\* the file of the process
C15_Witness ==
    \E f \in uncaptured :
        /\ \E i \in DOMAIN files[Global] : files[Global][i].tick = f[1]
        /\ \E i \in DOMAIN files[f[2]] : files[f[2]][i].tick > f[1]

\* C16: after a refresh, every tracked process whose liveness probe failed
\* is no longer tracked and every one whose probe succeeded still is; every
\* child that the tracked processes listed and that was not tracked is
\* tracked if its attach succeeded and not tracked if it failed; a failed
\* attach does not stop the refresh or the tick.
C16_RefreshOutcome ==
    tickNo > 0 =>
        /\ \A p \in lastRefresh.exited : p \notin spies
        /\ \A p \in lastRefresh.before \ lastRefresh.exited : p \in spies
        /\ \A c \in lastRefresh.kids :
              /\ c \notin lastRefresh.before
              /\ c \in lastRefresh.attached => c \in spies
              /\ c \notin lastRefresh.attached => c \notin spies
        /\ spies \subseteq lastRefresh.before \cup lastRefresh.kids
        /\ lastRefresh.kids \ lastRefresh.attached # {} =>
              /\ HasRequest(tickNo, Global)
              /\ \A q \in spies :
                    (<<tickNo, q>> \notin uncaptured \cup skipped) => HasRequest(tickNo, q)

\* the attach of the child failed in a refresh: the child is not tracked, the
\* root is, and the root's record of that tick is in its file
C16_Witness ==
    /\ tickNo > 0
    /\ lastRefresh.kids \ lastRefresh.attached # {}
    /\ lastRefresh.exited = {}
    /\ spies = {RootPid}
    /\ \E i \in DOMAIN files[RootPid] : files[RootPid][i].tick = tickNo

\* the writer threads and the files in every state
OneWriter ==
    /\ writers <= 1
    /\ ~Attached =>
          /\ writers = 0
          /\ wstate = "none"
          /\ file_lines = <<>>
          /\ \A id \in Identities : files[id] = <<>>
    /\ Attached => writers = 1

\* a step that spawns a writer is the attach that succeeds; a step that
\* appends to a file or assigns an index is a step of the writer, in which
\* the main thread does nothing
OnlyTheWriterWrites ==
    /\ writers' # writers =>
          (pc = "attach" /\ pc' = "loop" /\ writers' = writers + 1)
    /\ (files' # files \/ file_lines' # file_lines) =>
          /\ wstate = "write"
          /\ wstate' \in {"recv", "panicked"}
          /\ UNCHANGED <<pc, spies, pending, tickNo, submitted>>
          /\ \A id \in Identities \ {cur.output_path} : files'[id] = files[id]

\* C17: a session has one writer thread: a failed attach attempt spawns none
\* and creates no file, the attempt that succeeds spawns one, and every
\* append to a file and every index is the work of that thread, never of
\* the tick loop.
C17_OneWriterTask == []OneWriter /\ [][OnlyTheWriterWrites]_vars

\* two failed attempts, then the session: one writer, records in the files
\* of Global and of the root
C17_Witness ==
    /\ attempts = 3
    /\ writers = 1
    /\ files[Global] # <<>>
    /\ files[RootPid] # <<>>

(***************************************************************************)
(* Claims about read_report (SpecRead).                                    *)
(***************************************************************************)
\* every line of the file is the text of a record
WellFormed(name) ==
    \A i \in DOMAIN data_dir[name].lines : data_dir[name].lines[i].json

\* the records of a well-formed file
RecordsOf(name) ==
    [i \in DOMAIN data_dir[name].lines |-> data_dir[name].lines[i].value]

\* C18: read_report returns a mapping only when every line of every file of
\* the directory parsed; if any line of any file does not parse it returns
\* an error and no mapping, whatever the other files contain; a mapping
\* that is returned holds whole files.
C18_ReadIsAllOrNothing ==
    /\ epc = "reading" => report = <<>>
    /\ epc = "read" =>
          /\ report.status \in {"ok", "err"}
          /\ report.status = "ok" => \A name \in DOMAIN data_dir : WellFormed(name)
          /\ (\E name \in DOMAIN data_dir : ~WellFormed(name)) =>
                (report.status = "err" /\ report.value = <<>>)
          /\ report.status = "ok" =>
                \A key \in DOMAIN report.value :
                    \E name \in DOMAIN data_dir : report.value[key] = RecordsOf(name)

\* a well-formed file was read and inserted, then a line of the other file
\* did not parse: an error and no mapping
C18_Witness ==
    /\ epc = "read"
    /\ unread = {}
    /\ report.status = "err"
    /\ report.error = "could not deserialize line"
    /\ \E name \in DOMAIN data_dir :
          /\ name = <<"1", ".", "json">>
          /\ data_dir[name].readable
          /\ data_dir[name].lines # <<>>
          /\ WellFormed(name)

\* the identity that each file name of the model stands for; NoIdentifier:
\* the name is neither `global` nor an unsigned 32-bit integer
NoIdentifier == [kind |-> "None", pid |-> 0]
ExpectedIdentifier(name) ==
    CASE name = <<"global", ".", "json">> -> GlobalIdentifier
      [] name = <<"global">> -> GlobalIdentifier
      [] name = <<"1", ".", "json">> -> PidIdentifier(1)
      [] name = <<"2", ".", "json">> -> PidIdentifier(2)
      [] name = <<"0", "1", ".", "json">> -> PidIdentifier(1)
      [] name = <<"+", "1", ".", "json">> -> PidIdentifier(1)
      [] OTHER -> NoIdentifier

\* C19: the identity of a file comes from its name: `global` gives Global, a
\* name that parses as an unsigned 32-bit integer gives that process, and
\* any other name makes the whole read fail.
C19_IdentityFromFileName ==
    epc = "read" =>
        /\ (\E name \in DOMAIN data_dir : ExpectedIdentifier(name) = NoIdentifier)
              => report.status = "err"
        /\ report.error = "could not parse pid" =>
              \E name \in DOMAIN data_dir : ExpectedIdentifier(name) = NoIdentifier
        /\ report.status = "ok" =>
              DOMAIN report.value = {ExpectedIdentifier(name) : name \in DOMAIN data_dir}

\* the files global.json and 1.json give the identities Global and 1
C19_Witness ==
    /\ epc = "read"
    /\ report.status = "ok"
    /\ DOMAIN data_dir = {<<"global", ".", "json">>, <<"1", ".", "json">>}
    /\ DOMAIN report.value = {GlobalIdentifier, PidIdentifier(1)}
    /\ report.value[PidIdentifier(1)] # <<>>

(***************************************************************************)
(* Claims about empty input (SpecExport).                                  *)
(***************************************************************************)
\* the identities of the session that have records, and the session and the
\* iteration order without the others
NonEmpty == {id \in DOMAIN session : session[id] # <<>>}
WithoutEmpty == [id \in NonEmpty |-> session[id]]
OrderWithoutEmpty == SelectSeq(order1, LAMBDA id : session[id] # <<>>)

\* C20: an identity without records adds no process to the profile and
\* does not make the export fail: the export returns what it returns for
\* the session without that identity; a session without any record makes
\* the export fail with an error.
C20_EmptyInput ==
    epc \in {"built1", "built2"} =>
        /\ NonEmpty = {} =>
              (profile1.status = "err" /\ profile1.error = "no samples found")
        /\ profile1.status = "ok" =>
              /\ AllRegistered
              /\ \A i \in DOMAIN profile1.value.processes :
                    profile1.value.processes[i].pid \in NonEmpty \ {Global}
        /\ profile1 = generate_fxprof(WithoutEmpty, OrderWithoutEmpty)

\* a profile of a session in which one process has records and the other
\* has none
C20_Witness ==
    /\ Built
    /\ DOMAIN session = Identities
    /\ \E p \in Pids : session[p] = <<>>
    /\ \E p \in Pids : Len(session[p]) = 2
    /\ Len(profile1.value.processes) = 1

(***************************************************************************)
(* Claims about the time field (Spec).                                     *)
(***************************************************************************)
\* the records of one file have times that never decrease in index order
TimeNonDecreasing(id) ==
    \A i, j \in DOMAIN files[id] : i <= j => files[id][i].time <= files[id][j].time

\* the requests and records of one tick, whatever their identity, carry the
\* same time
SameTickSameTime ==
    /\ \A i, j \in DOMAIN submitted :
          submitted[i].tick = submitted[j].tick => submitted[i].time = submitted[j].time
    /\ \A i, j \in DOMAIN pending : pending[i].time = pending[j].time
    /\ \A id1, id2 \in Identities :
          \A i \in DOMAIN files[id1], j \in DOMAIN files[id2] :
             files[id1][i].tick = files[id2][j].tick
                => files[id1][i].time = files[id2][j].time

\* C21: in every file the time field never decreases in index order, all
\* records of one tick carry the same time, and so no record of a process
\* is earlier than the first record of that process.
C21_TimeNonDecreasing ==
    /\ \A id \in Identities : TimeNonDecreasing(id)
    /\ SameTickSameTime
    /\ \A p \in Pids : \A i \in DOMAIN files[p] : files[p][i].time >= files[p][1].time

(***************************************************************************)
(* Claims about export_report (SpecExportReport).                          *)
(***************************************************************************)
\* export_report returned an error of read_report or of generate_fxprof, or
\* generate_fxprof panicked
FailedBeforeWriting ==
    /\ epc = "done"
    /\ \/ result.status = "panic"
       \/ result.status = "err" /\ result.error \in {"ReadReport", "FirefoxProfile"}

\* until the profile is built, and for good when it cannot be built, the
\* destination is the file it was when export_report was called
DestinationUntouched ==
    (epc \in {"reading", "read", "generated"} \/ FailedBeforeWriting)
        => output_file = output_before

\* a step that creates or changes the destination has the complete profile
DestinationStep ==
    output_file' # output_file
        => /\ report.status = "ok"
           /\ profile1.status = "ok"
           /\ epc \in {"generated", "created", "serialized"}

\* C22: when the export fails while reading the session or building the
\* profile, the destination file is the file it was before, neither created
\* nor modified: it is opened only once the complete profile is built.
C22_FailedExportLeavesDestination ==
    []DestinationUntouched /\ [][DestinationStep]_vars

\* the export has failed for want of a thread, and the file of an earlier
\* export is still at the destination
C22_Witness ==
    /\ FailedBeforeWriting
    /\ profile1 # <<>>
    /\ profile1.error = "no threads found"
    /\ output_before = EarlierFile
    /\ output_file = EarlierFile

\* the ExportError variant of a failed step of write_profile
VariantOf(step) ==
    CASE step = "create" -> "WriteOutput"
      [] step = "serialize" -> "SerializeReports"
      [] step = "finish" -> "WriteOutputGz"

\* C30: export_report returns Ok only when the file was created, the profile
\* serialized and the compression stream finalized, each with success, and
\* the destination then holds the finalized stream of the profile; a step of
\* write_profile that failed is the last one, and export_report has returned
\* its error.
C30_SuccessOnlyWhenFinalized ==
    /\ (result # <<>> /\ result.status = "ok") =>
          /\ io_log = <<[step |-> "create", ok |-> TRUE],
                        [step |-> "serialize", ok |-> TRUE],
                        [step |-> "finish", ok |-> TRUE]>>
          /\ output_file = Finalized(profile1.value)
    /\ \A i \in DOMAIN io_log :
          ~io_log[i].ok =>
              /\ i = Len(io_log)
              /\ epc = "done"
              /\ result.status = "err"
              /\ result.error = VariantOf(io_log[i].step)

\* the profile was serialized, finalizing the stream failed, and the export
\* has returned
C30_Witness ==
    /\ epc = "done"
    /\ Len(io_log) = 3
    /\ io_log[2] = [step |-> "serialize", ok |-> TRUE]
    /\ io_log[3] = [step |-> "finish", ok |-> FALSE]
    /\ result.status = "err"

(***************************************************************************)
(* Claims about the threads of a process (SpecThreads).                    *)
(***************************************************************************)
\* the stack traces of the records whose thread id is registered as tid
TracesOfThread(samples, tid) ==
    SelectSeq(AllTraces(samples), LAMBDA t : AsU32(t.thread_id) = tid)

\* C23: in every process of the profile the main thread is the first thread
\* registered, no other thread is registered as main or with its id, and
\* every stack trace with the main thread's id is a sample of that one
\* thread, in file order.
C23_MainThreadFirstAndOnce ==
    Built =>
        \A i \in DOMAIN profile1.value.processes :
            LET proc == profile1.value.processes[i]
                samples == session[proc.pid]
                main == proc.threads[1]
                traces == TracesOfThread(samples, main.tid)
            IN /\ proc.threads # <<>>
               /\ proc.main_thread_handle = 1
               /\ main.is_main
               /\ \A h \in DOMAIN proc.threads :
                     h # 1 => ~proc.threads[h].is_main /\ proc.threads[h].tid # main.tid
               /\ Len(main.samples) = Len(traces)
               /\ \A k \in DOMAIN main.samples : main.samples[k].frames = traces[k].frames

\* the first stack trace of the file is of another thread, and two later
\* ones are of the main thread
C23_Witness ==
    /\ Built
    /\ RootPid \in DOMAIN session
    /\ Len(AllTraces(session[RootPid])) = 3
    /\ AllTraces(session[RootPid])[1].thread_id = 7
    /\ AllTraces(session[RootPid])[2].thread_name = <<MAIN_THREAD_NAME>>
    /\ AllTraces(session[RootPid])[2].thread_id = 3
    /\ AllTraces(session[RootPid])[3].thread_id = 3
    /\ \E i \in DOMAIN profile1.value.processes :
          LET proc == profile1.value.processes[i] IN
          /\ Len(proc.threads) = 2
          /\ proc.threads[1].tid = 3
          /\ Len(proc.threads[1].samples) = 2

(***************************************************************************)
(* Claims about the reference time (SpecExport).                           *)
(***************************************************************************)
\* the times of all records of the session
SessionTimes == UNION {{session[id][i].time : i \in DOMAIN session[id]} : id \in DOMAIN session}

\* every relative timestamp of a built profile
ProfileTimestamps(processes) ==
    UNION {LET proc == processes[i] IN
           {proc.start}
           \cup {proc.memory_counter.samples[k].time : k \in DOMAIN proc.memory_counter.samples}
           \cup {proc.io_counter.samples[k].time : k \in DOMAIN proc.io_counter.samples}
           \cup {proc.threads[h].start : h \in DOMAIN proc.threads}
           \cup UNION {{proc.threads[h].samples[k].time :
                          k \in DOMAIN proc.threads[h].samples} : h \in DOMAIN proc.threads} :
           i \in DOMAIN processes}

\* C24: the reference time of the builder is the least time of all records
\* of all identities; the first record of every process is at or after it,
\* so the assertion of add_process (and of ProfileBuilderProcess::new) does
\* not fail; the relative time of every record, and every timestamp of a
\* built profile, is zero or more.
C24_ReferenceTimeIsMinimum ==
    epc \in {"built1", "built2"} =>
        LET made == from_samples(session, order1) IN
        /\ made.status = "ok" =>
              /\ made.value.start_time_millis \in SessionTimes
              /\ \A t \in SessionTimes :
                    /\ made.value.start_time_millis <= t
                    /\ Timestamp(made.value, t) >= 0
              /\ \A p \in DOMAIN session \ {Global} :
                    session[p] # <<>> => session[p][1].time >= made.value.start_time_millis
        /\ profile1.status = "panic" => profile1.error # FirstSampleAssertion
        /\ profile1.status = "ok" =>
              /\ profile1.value.start_time_millis = made.value.start_time_millis
              /\ \A t \in ProfileTimestamps(profile1.value.processes) : t >= 0

\* a profile of two processes, one that starts at the reference time and
\* one that starts after it; the map yielded the later one first
C24_Witness ==
    /\ Built
    /\ Len(profile1.value.processes) = 2
    /\ profile1.value.processes[1].start > 0
    /\ profile1.value.processes[2].start = 0
    /\ session[order1[1]][1].time > profile1.value.start_time_millis

(***************************************************************************)
(* Claims about the counters of a process (SpecExport).                    *)
(***************************************************************************)
\* the raw values of the two counters in a record
RawMemory(line) == line.resources.memory
RawIo(line) == line.resources.disk_read_bytes + line.resources.disk_write_bytes

\* the counter has the baseline 0 at the start of the process and then one
\* sample for each record, at the record's time: the record's raw value
\* minus that of the record before (minus the baseline for the first); the
\* value it keeps is the last record's raw value
DeltaPerRecord(b, proc, c, samples, raw) ==
    /\ Len(c.samples) = Len(samples) + 1
    /\ c.samples[1] = [time |-> proc.start, value |-> 0]
    /\ \A i \in DOMAIN samples :
          /\ c.samples[i + 1].time = Timestamp(b, samples[i].time)
          /\ c.samples[i + 1].value =
                raw[i] - (IF i = 1 THEN 0 ELSE raw[i - 1])
    /\ c.last_value = raw[Len(samples)]

\* C25: in every process of the profile the memory counter and the I/O
\* counter have n + 1 samples for the n records of the process: the zero
\* baseline at process start, then for each record one sample, the record's
\* raw value (memory; bytes read plus bytes written) minus the raw value
\* recorded before it, which the record's raw value then replaces.
C25_OneDeltaPerRecord ==
    Built =>
        \A i \in DOMAIN profile1.value.processes :
            LET proc == profile1.value.processes[i]
                samples == session[proc.pid]
            IN /\ DeltaPerRecord(profile1.value, proc, proc.memory_counter, samples,
                                 [k \in DOMAIN samples |-> RawMemory(samples[k])])
               /\ DeltaPerRecord(profile1.value, proc, proc.io_counter, samples,
                                 [k \in DOMAIN samples |-> RawIo(samples[k])])

\* three records whose memory goes up and down again while the I/O bytes
\* grow: the I/O counter is [0, 0, 40, 25]
C25_Witness ==
    /\ Built
    /\ \E i \in DOMAIN profile1.value.processes :
          LET proc == profile1.value.processes[i] IN
          /\ Len(proc.memory_counter.samples) = 4
          /\ [k \in 1..4 |-> proc.memory_counter.samples[k].value] = <<0, 100, 30, -30>>
          /\ Len(proc.io_counter.samples) = 4
          /\ [k \in 1..4 |-> proc.io_counter.samples[k].value] = <<0, 0, 40, 25>>

(***************************************************************************)
(* Claims about the CPU weight of a sample (SpecThreads).                  *)
(***************************************************************************)
\* the stack traces of the records, each with its record, in file order
RECURSIVE TracesWithRecord(_)
TracesWithRecord(samples) ==
    IF samples = <<>> THEN <<>>
    ELSE [j \in DOMAIN Head(samples).stacktraces |->
            [trace |-> Head(samples).stacktraces[j], line |-> Head(samples)]]
         \o TracesWithRecord(Tail(samples))

\* those of the thread registered as tid
OfThread(samples, tid) ==
    SelectSeq(TracesWithRecord(samples), LAMBDA x : AsU32(x.trace.thread_id) = tid)

\* the percent a sample is weighted with
ExpectedPercent(is_main, trace, line) ==
    CASE is_main -> line.resources.cpu
      [] ~is_main /\ trace.os_thread_id = <<>> -> 0
      [] ~is_main /\ trace.os_thread_id # <<>>
           /\ trace.os_thread_id[1] \notin DOMAIN line.resources.thread_resources -> 0
      [] ~is_main /\ trace.os_thread_id # <<>>
           /\ trace.os_thread_id[1] \in DOMAIN line.resources.thread_resources
           -> line.resources.thread_resources[trace.os_thread_id[1]].cpu

\* C26: every stack trace of a process is a sample of its thread, and the
\* CPU weight of the sample is that of the record's process CPU percent when
\* the thread is the main thread; otherwise that of the CPU percent of the
\* record's entry for the trace's OS thread id when the trace has one and
\* the record has the entry; otherwise zero.
C26_CpuWeightOfSample ==
    Built =>
        \A i \in DOMAIN profile1.value.processes :
            LET proc == profile1.value.processes[i]
                samples == session[proc.pid]
            IN \A h \in DOMAIN proc.threads :
                  LET thread == proc.threads[h]
                      from == OfThread(samples, thread.tid)
                  IN /\ Len(thread.samples) = Len(from)
                     /\ \A k \in DOMAIN thread.samples :
                           /\ thread.samples[k].time
                                 = Timestamp(profile1.value, from[k].line.time)
                           /\ thread.samples[k].cpu
                                 = ExpectedPercent(thread.is_main, from[k].trace, from[k].line)
                                   * profile1.value.interval_millis

\* the three cases in one process: the main thread (whose OS thread has an
\* entry of 20 percent) is weighted with the process's 50 percent, the
\* worker with the 20 percent of its entry in the first record and with
\* zero in the second record, which has no entry for it
C26_Witness ==
    /\ Built
    /\ \E i \in DOMAIN profile1.value.processes :
          LET proc == profile1.value.processes[i] IN
          /\ Len(proc.threads) = 2
          /\ Len(proc.threads[1].samples) = 1
          /\ proc.threads[1].samples[1].cpu = 50 * profile1.value.interval_millis
          /\ Len(proc.threads[2].samples) = 2
          /\ proc.threads[2].samples[1].cpu = 20 * profile1.value.interval_millis
          /\ proc.threads[2].samples[2].cpu = 0
          /\ \A r \in 1..2 : \A j \in DOMAIN session[proc.pid][r].stacktraces :
                session[proc.pid][r].stacktraces[j].os_thread_id = <<11>>

(***************************************************************************)
(* Claims about the category of a frame (SpecThreads).                     *)
(***************************************************************************)
\* every frame of every stack has one of the two categories
OneOfTwoCategories ==
    Built =>
        \A i \in DOMAIN profile1.value.processes :
            \A u \in FrameUses(profile1.value.processes[i]) :
                InternedFrame(profile1.value.processes[i], u).category
                    \in {"Native", "Python"}

\* C27: every frame of a sample's stack has one of the two categories, and
\* it is the native one exactly when the recorded frame it was made from is
\* flagged is_entry.
C27_CategoryOfOriginatingFrame ==
    /\ OneOfTwoCategories
    /\ Built =>
          \A i \in DOMAIN profile1.value.processes :
              \A u \in FrameUses(profile1.value.processes[i]) :
                  InternedFrame(profile1.value.processes[i], u).category = "Native"
                      <=> RecordedFrame(profile1.value.processes[i], u).is_entry

(***************************************************************************)
(* Claims about the key of a thread entity (SpecThreadIds).                *)
(***************************************************************************)
\* the samples of a process: thread entity and position
SamplesOf(proc) ==
    {<<h, k>> \in (DOMAIN proc.threads) \X (1..MaxStacks) :
        k \in DOMAIN proc.threads[h].samples}

\* the thread id of the stack trace a sample was made from
ThreadIdOf(proc, x) == proc.threads[x[1]].samples[x[2]].thread_id

\* stack traces with the same thread id are samples of the same entity
SameIdSameEntity ==
    Built =>
        \A i \in DOMAIN profile1.value.processes :
            LET proc == profile1.value.processes[i] IN
            \A x, y \in SamplesOf(proc) :
                ThreadIdOf(proc, x) = ThreadIdOf(proc, y) => x[1] = y[1]

\* C28: in every process, two stack traces are samples of the same thread
\* entity exactly when they have the same thread id, whatever 64-bit value
\* the id is.
C28_EntityPerThreadId ==
    /\ SameIdSameEntity
    /\ Built =>
          \A i \in DOMAIN profile1.value.processes :
              LET proc == profile1.value.processes[i] IN
              \A x, y \in SamplesOf(proc) :
                  ThreadIdOf(proc, x) # ThreadIdOf(proc, y) => x[1] # y[1]

(***************************************************************************)
(* Claims about the interrupt (SpecFair).                                  *)
(***************************************************************************)
\* the flag stays set, and with the flag set no tick is started
InterruptedStep == quit => (quit' /\ tickNo' = tickNo)

\* with the flag set the main thread only finishes the tick it is in and
\* leaves the loop
InterruptedMainStep ==
    (quit /\ pc' # pc) =>
        \/ pc = "send" /\ pc' \in {"loop", "panicked"}
        \/ pc = "loop" /\ pc' = "returned"
        \/ pc = "returned" /\ pc' = "exit_ok"
        \/ pc = "attach"

\* when the loop is left after a tick, the tick is complete: its Global
\* request was the last one submitted
LastTickComplete ==
    (pc \in {"returned", "exit_ok"} /\ tickNo > 0) =>
        /\ pending = <<>>
        /\ submitted # <<>>
        /\ submitted[Len(submitted)].output_path = GlobalPath
        /\ submitted[Len(submitted)].tick = tickNo

\* C29: once the interrupt flag is set it stays set and no tick is started;
\* the tick in progress sends its remaining requests, the Global one last,
\* and the loop is left at its next check, tracked processes alive or not.
C29_InterruptStopsTheLoop ==
    /\ [][InterruptedStep /\ InterruptedMainStep]_vars
    /\ []LastTickComplete
    /\ (quit /\ pc \in {"loop", "send"}) ~> LoopStopped

\* the interrupt came while processes were tracked; the loop has been left
\* with them still tracked and the last tick complete
C29_Witness ==
    /\ quit
    /\ pc = "returned"
    /\ spies = Pids
    /\ tickNo > 0
    /\ Len(OfTick(submitted, tickNo)) = Cardinality(Pids) + 1

(***************************************************************************)
(* Claims about the requests of a tick (Spec).                             *)
(***************************************************************************)
\* the ticks that ran to their last send
CompletedTicks == IF pending = <<>> THEN tickNo ELSE tickNo - 1

\* after k completed ticks k Global requests are submitted and at most k
\* requests of each process (one more while the next tick is sending)
RequestsPerTick ==
    pc \in {"loop", "send", "returned", "exit_ok"} =>
        /\ Len(SeqFilter(submitted, GlobalPath)) = CompletedTicks
        /\ \A p \in Pids : Len(SeqFilter(submitted, PidPath(p))) <= tickNo
        /\ pending = <<>> =>
              \A p \in Pids : Len(SeqFilter(submitted, PidPath(p))) <= CompletedTicks

\* a tick whose refresh left nothing tracked has still submitted its Global
\* request: it is the only request of that tick
EmptyTickHasGlobal ==
    (pc \in {"loop", "returned", "exit_ok"} /\ tickNo > 0 /\ spies = {}) =>
        LET reqs == OfTick(submitted, tickNo) IN
        /\ Len(reqs) >= 1
        /\ reqs[Len(reqs)].output_path = GlobalPath

\* C31: after k completed ticks exactly k Global requests and at most k
\* requests of every process are submitted, the tick that removes the last
\* tracked process included; so when the session is over the Global file
\* has at least as many records as the file of any process.
C31_GlobalLogIsLongest ==
    /\ RequestsPerTick
    /\ EmptyTickHasGlobal
    /\ pc = "exit_ok" => \A p \in Pids : Len(files[PidPath(p)]) <= Len(files[GlobalPath])

(***************************************************************************)
(* Claims about the Global identity in the export (SpecExport).            *)
(***************************************************************************)
\* the times of the records, identity after identity in the given order
RECURSIVE TimesInOrder(_)
TimesInOrder(order) ==
    IF order = <<>> THEN <<>>
    ELSE TimesOf(session[Head(order)]) \o TimesInOrder(Tail(order))

\* the deltas of consecutive times, a step back counting as 0
StepsOf(times) ==
    [i \in 1..(Len(times) - 1) |->
        IF times[i + 1] >= times[i] THEN times[i + 1] - times[i] ELSE 0]

\* C32: the processes of a profile are the process identities that have
\* records, never Global; the reference time is the least time of all
\* records, those of Global included, and the interval is a median of the
\* deltas of the stream of all records, those of Global included, so that
\* two Global records are enough for the export to find an interval.
C32_GlobalOnlyInTiming ==
    epc \in {"built1", "built2"} =>
        /\ (Global \in DOMAIN session /\ Len(session[Global]) >= 2)
              => profile1.error # "no samples found"
        /\ profile1.status = "ok" =>
              /\ \A i \in DOMAIN profile1.value.processes :
                    /\ profile1.value.processes[i].pid # Global
                    /\ profile1.value.processes[i].pid \in NonEmpty
              /\ Len(profile1.value.processes) = Cardinality(NonEmpty \ {Global})
              /\ profile1.value.start_time_millis = MinOf(SessionTimes)
              /\ profile1.value.interval_millis \in Medians(StepsOf(TimesInOrder(order1)))

\* Global has two records and the only process one, later than Global's
\* first: the profile has the one process, starts at Global's first record
\* and has the interval of Global's records
C32_Witness ==
    /\ Built
    /\ Len(session[Global]) = 2
    /\ Len(profile1.value.processes) = 1
    /\ Len(session[profile1.value.processes[1].pid]) = 1
    /\ profile1.value.start_time_millis = session[Global][1].time
    /\ profile1.value.processes[1].start > 0
    /\ profile1.value.interval_millis = session[Global][2].time - session[Global][1].time

(***************************************************************************)
(* Claims about sessions too short for an interval (SpecInterval).         *)
(***************************************************************************)
\* the records of the session, all identities together
RECURSIVE CountRecords(_)
CountRecords(ids) ==
    IF ids = {} THEN 0
    ELSE LET id == CHOOSE x \in ids : TRUE
         IN Len(session[id]) + CountRecords(ids \ {id})

TotalRecords == CountRecords(DOMAIN session)

\* C33: the builder is made, with an interval, exactly when the session has
\* two records or more, whatever identities they belong to; with one record
\* it fails with the error of the session without any record.
C33_IntervalNeedsTwoRecords ==
    epc = "estimated" =>
        /\ builder.status = "ok" <=> TotalRecords >= 2
        /\ TotalRecords <= 1 =>
              builder.status = "err" /\ builder.error = "no samples found"

\* a session whose only record is one of the process
C33_Witness ==
    /\ epc = "estimated"
    /\ TotalRecords = 1
    /\ Len(session[RootPid]) = 1
    /\ builder.status = "err"

(***************************************************************************)
(* Claims about a process without any stack trace (SpecExportReport).      *)
(***************************************************************************)
\* the processes of the session that have records and no stack trace in any
\* of them
Threadless ==
    {id \in DOMAIN session \ {Global} :
        session[id] # <<>> /\ \A i \in DOMAIN session[id] : session[id][i].stacktraces = <<>>}

\* the processes of the session that have no record
Recordless == {id \in DOMAIN session \ {Global} : session[id] = <<>>}

\* generate_fxprof has been called
Generated == report # <<>> /\ report.status = "ok" /\ profile1 # <<>>

\* C34: a process with records and no stack trace in any of them makes the
\* whole export fail (with "no threads found" unless an assertion failed
\* first): no profile is made, for any process, and nothing is written.  A
\* process without records never does: it is skipped.
C34_ThreadlessProcessFailsExport ==
    Generated =>
        /\ Threadless # {} =>
              /\ profile1.status # "ok"
              /\ profile1.status = "err" =>
                    profile1.error \in {"no threads found", "no samples found"}
              /\ epc = "done"
              /\ result.status # "ok"
              /\ output_file = output_before
        /\ (profile1.status = "err" /\ profile1.error = "no threads found")
              => Threadless # {}
        /\ (Threadless = {} /\ profile1.status = "ok")
              => Len(profile1.value.processes)
                    = Cardinality(DOMAIN session \ ({Global} \cup Recordless))

\* process 2 has stack traces and comes first, process 1 has records without
\* any: the export has failed and has written nothing
C34_Witness ==
    /\ Generated
    /\ Threadless = {1}
    /\ 2 \in DOMAIN session
    /\ \E i \in DOMAIN session[2] : session[2][i].stacktraces # <<>>
    /\ order1 = <<2, 1>>
    /\ profile1.status = "err"
    /\ profile1.error = "no threads found"
    /\ result = ExportErr("FirefoxProfile")
    /\ output_file = output_before

(***************************************************************************)
(* Claims about the children whose attach failed (Spec).                   *)
(***************************************************************************)
\* the children whose attach failed in the last refresh
FailedAttach == lastRefresh.kids \ lastRefresh.attached

\* a step that starts a tick: its refresh calls track_process for every
\* listed child that is not tracked, those whose attach failed in the
\* refresh before included, and tracks exactly those whose attach succeeds
RetryStep ==
    tickNo' # tickNo =>
        /\ lastRefresh'.before = spies
        /\ lastRefresh'.kids = lastRefresh'.untracked
        /\ \A c \in FailedAttach :
              /\ c \notin spies
              /\ c \in lastRefresh'.untracked =>
                    /\ c \in lastRefresh'.kids
                    /\ c \in spies' <=> c \in lastRefresh'.attached

\* C35: a child whose attach failed is attached again by every later refresh
\* that finds it listed and not tracked, and is tracked from the first of
\* these attaches that succeeds.
C35_FailedAttachIsRetried == [][RetryStep]_vars

\* the attach of a child failed in one refresh and succeeded in the next
C35_Witness ==
    /\ tickNo >= 2
    /\ \E c \in lastRefresh.failed_before :
          /\ c \in lastRefresh.kids
          /\ c \in lastRefresh.attached
          /\ c \in spies

(***************************************************************************)
(* Claims about files of the same identity (SpecRead).                     *)
(***************************************************************************)
\* the files of the directory whose name stands for the identity
FilesOf(key) == {name \in DOMAIN data_dir : ExpectedIdentifier(name) = key}

\* every file can be read, holds records only and has a name that stands
\* for an identity
AllFilesGood ==
    \A name \in DOMAIN data_dir :
        /\ data_dir[name].readable
        /\ WellFormed(name)
        /\ ExpectedIdentifier(name) # NoIdentifier

\* C36: two files that stand for the same identity are no error: the read
\* fails only for another reason, and its result has, for each identity,
\* the records of exactly one of the files of that identity.
C36_OneFilePerIdentity ==
    epc = "read" =>
        /\ (AllFilesGood /\ report.status = "err")
              => report.error = "could not open data dir"
        /\ report.status = "ok" =>
              \A key \in DOMAIN report.value :
                  \E name \in FilesOf(key) : report.value[key] = RecordsOf(name)

\* 1.json holds two records and 01.json none; the read has succeeded and
\* process 1 has no record
C36_Witness ==
    /\ epc = "read"
    /\ report.status = "ok"
    /\ DOMAIN data_dir = {<<"1", ".", "json">>, <<"0", "1", ".", "json">>}
    /\ Len(data_dir[<<"1", ".", "json">>].lines) = 2
    /\ data_dir[<<"0", "1", ".", "json">>].lines = <<>>
    /\ DOMAIN report.value = {PidIdentifier(1)}
    /\ report.value[PidIdentifier(1)] = <<>>

====
